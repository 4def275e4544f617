--------------------------- MODULE ProgressBadges ---------------------------
(***************************************************************************)
(* The progress badges of the Lampa plugin (src/plugins/np_unwatched.js):  *)
(* the numbers on the cards of the unwatched row, on the poster of an open *)
(* card and in the file list, and the ticks of its episodes.  The server   *)
(* knows what was watched; the plugin asks it again whenever it hears of a *)
(* change, made here (np_timecode_saved) or elsewhere (the web socket),    *)
(* and shows whatever answer arrives.                                      *)
(*                                                                         *)
(* A badge is the set of episodes it counts as watched.                    *)
(***************************************************************************)
EXTENDS Naturals, Sequences

CONSTANTS
    Show, Episode, Profile,
    MaxEvents,     \* (bound) marks made and profiles chosen
    MaxMoves       \* (bound) screens gone to

VARIABLES
    watched,       \* watched[p][s]: what the server has
    profile,
    at, of,        \* the screen: "main", the "full" card or the "files" of show of
    row,           \* row[s]: the badge of s in the unwatched row, or Gone
    poster, label, \* the badges of the open card and of the file list
    known,         \* knownProgress
    cache,         \* episodeWatchedCache: the ticks of the episode cards
    asked,         \* requests the server has not seen
    answers,       \* answers[s]: what it has said, in the order it said it
    posts,         \* marks made here that are being saved, and what storing them did
    messages,      \* web socket messages under way
    optimistic, confirmed,  \* lastOptimisticKey, lastConfirmedKey, as sets of at most one
    events, moves,
    missed         \* (history) the ways to lose a change, named below, that were taken

vars == <<watched, profile, at, of, row, poster, label, known, cache, asked, answers, posts,
          messages, optimistic, confirmed, events, moves, missed>>

\* No badge; the card is not in the row.
Null == {"null"}
Gone == {"gone"}
Badge == SUBSET Episode
Kinds == {"poster", "all", "label", "ticks"}
Ways == {"failed", "overtaken", "profile", "ticks", "repeated"}
Mark == [show : Show, episode : Episode, on : BOOLEAN]
Post == [mark : Mark, profile : Profile, stored : {"no", "same", "new"}]

TypeOK ==
    /\ watched \in [Profile -> [Show -> Badge]]
    /\ profile \in Profile
    /\ at \in {"main", "full", "files"} /\ of \in Show
    /\ row \in [Show -> Badge \cup {Gone}]
    /\ poster \in Badge \cup {Null} /\ label \in Badge \cup {Null}
    /\ known \in [Show -> Badge \cup {Null}]
    /\ cache \in [Show -> Badge \cup {Null}]
    /\ asked \subseteq [kind : Kinds, show : Show, profile : Profile, late : BOOLEAN]
    /\ \A s \in Show : \A i \in DOMAIN answers[s] :
          answers[s][i].kind \in Kinds /\ answers[s][i].value \in Badge \cup {Null} /\ answers[s][i].late \in BOOLEAN
    /\ posts \subseteq Post /\ messages \in Seq([mark : Mark, profile : Profile])
    /\ optimistic \in SUBSET Mark /\ confirmed \in SUBSET Mark
    /\ events \in 0..MaxEvents /\ moves \in 0..MaxMoves
    /\ missed \subseteq Ways

Now(s) == watched[profile][s]
Apply(badge, m) == IF m.on THEN badge \cup {m.episode} ELSE badge \ {m.episode}
Listed(p) == [s \in Show |-> IF watched[p][s] = Episode THEN Gone ELSE watched[p][s]]
Ask(kind, s) == [kind |-> kind, show |-> s, profile |-> profile, late |-> FALSE]

\* decorateEpisodeCards on a screen with episodes of s: without ticks they are asked for.
Decorate(s, ticks) == IF at # "main" /\ of = s /\ ticks[s] = Null THEN {Ask("ticks", s)} ELSE {}

Init ==
    /\ watched \in [Profile -> [Show -> {{}}]]
    /\ profile \in Profile
    /\ at = "main" /\ of \in Show
    /\ row = Listed(profile)
    /\ poster = Null /\ label = Null
    /\ known = [s \in Show |-> Null] /\ cache = [s \in Show |-> Null]
    /\ asked = {} /\ answers = [s \in Show |-> <<>>]
    /\ posts = {} /\ messages = <<>>
    /\ optimistic = {} /\ confirmed = {}
    /\ events = 0 /\ moves = 0 /\ missed = {}

Moves == moves < MaxMoves /\ moves' = moves + 1
Happens == events < MaxEvents /\ events' = events + 1

-----------------------------------------------------------------------------
(* Screens *)

\* A card is opened ('complite'), or returned to from its files ('archive').
OpenCard(s) ==
    /\ at = "main" \/ (at = "files" /\ of = s)
    /\ Moves
    /\ at' = "full" /\ of' = s
    /\ poster' = IF at = "main" THEN Null ELSE poster
    /\ label' = Null
    /\ asked' = asked \cup {Ask("poster", s)}
                      \cup (IF cache[s] = Null THEN {Ask("ticks", s)} ELSE {})
    /\ UNCHANGED <<watched, profile, row, known, cache, answers, posts, messages, optimistic, confirmed, events, missed>>

\* The torrents of the open card, and the player.
OpenFiles ==
    /\ at = "full" /\ Moves
    /\ at' = "files"
    /\ asked' = asked \cup {Ask("label", of)}
                      \cup (IF cache[of] = Null THEN {Ask("ticks", of)} ELSE {})
    /\ UNCHANGED <<watched, profile, of, row, poster, label, known, cache, answers, posts, messages, optimistic, confirmed, events, missed>>

\* Mutant: the cards of the row keep what they showed.
BackToMainAsItWas ==
    /\ at = "full" /\ Moves
    /\ at' = "main" /\ poster' = Null
    /\ UNCHANGED <<watched, profile, of, row, label, known, cache, asked, answers, posts, messages, optimistic, confirmed, events, missed>>

\* refreshVisibleRowCards: what became known meanwhile is laid onto the cards.
BackToMain ==
    /\ at = "full" /\ Moves
    /\ at' = "main" /\ poster' = Null
    /\ row' = [s \in Show |-> CASE row[s] = Gone \/ known[s] = Episode -> Gone
                                [] known[s] = Null -> row[s]
                                [] OTHER -> known[s]]
    /\ UNCHANGED <<watched, profile, of, label, known, cache, asked, answers, posts, messages, optimistic, confirmed, events, missed>>

\* onProfileChanged; the main page is built anew.  (late is history: whatever was
\* asked for before is answered after a switch.)
SwitchProfile(p) ==
    /\ at = "main" /\ p # profile /\ Happens
    /\ profile' = p
    /\ row' = Listed(p)
    /\ known' = [s \in Show |-> Null] /\ cache' = [s \in Show |-> Null]
    /\ asked' = {[a EXCEPT !.late = TRUE] : a \in asked}
    /\ answers' = [s \in Show |-> [i \in DOMAIN answers[s] |-> [answers[s][i] EXCEPT !.late = TRUE]]]
    /\ UNCHANGED <<watched, at, of, poster, label, posts, messages, optimistic, confirmed, moves, missed>>

-----------------------------------------------------------------------------
(* Changes *)

\* The player reports an episode: processTimelineUpdate ticks it at once, and
\* np.js posts it.  An episode can be unmarked by hand.
MarkHere(e, on) ==
    LET m == [show |-> of, episode |-> e, on |-> on] IN
    /\ at = "files" /\ Happens
    /\ posts' = posts \cup {[mark |-> m, profile |-> profile, stored |-> "no"]}
    /\ IF on /\ m \notin optimistic
       THEN /\ optimistic' = {m}
            /\ cache' = IF cache[of] = Null THEN cache ELSE [cache EXCEPT ![of] = @ \cup {e}]
       ELSE UNCHANGED <<optimistic, cache>>
    /\ UNCHANGED <<watched, profile, at, of, row, poster, label, known, asked, answers, messages, confirmed, moves, missed>>

\* The server stores a mark for the profile it was made in.
Stored(p) ==
    LET was == watched[p.profile][p.mark.show]
        now == Apply(was, p.mark) IN
    /\ p.stored = "no"
    /\ watched' = [watched EXCEPT ![p.profile][p.mark.show] = now]
    /\ posts' = (posts \ {p}) \cup {[p EXCEPT !.stored = IF now = was THEN "same" ELSE "new"]}
    /\ UNCHANGED <<profile, at, of, row, poster, label, known, cache, asked, answers, messages, optimistic, confirmed, events, moves, missed>>

\* onTimecodeSaved: a change of a show, unless it is the one handled last.  What was
\* handled is remembered without its profile, and whatever happened since.
OnTimecodeSaved(m, new) ==
    IF m \in confirmed
    THEN /\ missed' = IF new THEN missed \cup {"repeated"} ELSE missed
         /\ UNCHANGED <<confirmed, cache, asked>>
    ELSE /\ confirmed' = {m}
         /\ cache' = [cache EXCEPT ![m.show] = Null]
         /\ asked' = asked \cup {Ask("all", m.show)} \cup Decorate(m.show, cache')
         /\ UNCHANGED missed

\* The post is answered; the plugin goes by np_timecode_saved.
Saved(p) ==
    /\ p.stored # "no" /\ posts' = posts \ {p}
    /\ OnTimecodeSaved(p.mark, p.stored = "new" /\ p.profile = profile)
    /\ UNCHANGED <<watched, profile, at, of, row, poster, label, known, answers, messages, optimistic, events, moves>>

SaveFails(p) ==
    /\ posts' = posts \ {p} /\ missed' = missed \cup {"failed"}
    /\ UNCHANGED <<watched, profile, at, of, row, poster, label, known, cache, asked, answers, messages, optimistic, confirmed, events, moves>>

\* Another device of the account, on any profile.
MarkElsewhere(p, m) ==
    /\ Happens /\ m.on # (m.episode \in watched[p][m.show])
    /\ watched' = [watched EXCEPT ![p][m.show] = Apply(@, m)]
    /\ messages' = Append(messages, [mark |-> m, profile |-> p])
    /\ UNCHANGED <<profile, at, of, row, poster, label, known, cache, asked, answers, posts, optimistic, confirmed, moves, missed>>

\* onWsTimecode: other profiles' messages are not for this screen.
Message ==
    /\ messages # <<>> /\ messages' = Tail(messages)
    /\ IF Head(messages).profile = profile THEN OnTimecodeSaved(Head(messages).mark, TRUE)
       ELSE UNCHANGED <<confirmed, cache, asked, missed>>
    /\ UNCHANGED <<watched, profile, at, of, row, poster, label, known, answers, posts, optimistic, events, moves>>

\* The socket was down; connectWS opens it again and asks for nothing.
MessageLost ==
    /\ messages # <<>> /\ messages' = Tail(messages)
    /\ missed' = missed \cup {"failed"}
    /\ UNCHANGED <<watched, profile, at, of, row, poster, label, known, cache, asked, answers, posts, optimistic, confirmed, events, moves>>

-----------------------------------------------------------------------------
(* Answers *)

\* The server sees a request; or it is lost, and the callback gets null.
Serve(a) ==
    /\ asked' = asked \ {a}
    /\ \E v \in {watched[a.profile][a.show], Null} :
          /\ answers' = [answers EXCEPT ![a.show] = Append(@, [kind |-> a.kind, value |-> v, late |-> a.late])]
          /\ missed' = IF v = Null THEN missed \cup {"failed"} ELSE missed
    /\ UNCHANGED <<watched, profile, at, of, row, poster, label, known, cache, posts, messages, optimistic, confirmed, events, moves>>

\* refreshFullCardPoster, refreshFullCardPosterAnimated: not if another card is open.
PosterAnswer(s, v) ==
    IF at # "full" \/ of # s THEN UNCHANGED <<known, poster>>
    ELSE /\ poster' = v
         /\ known' = IF v = Null THEN known ELSE [known EXCEPT ![s] = v]

\* updateBadgesEverywhere: the open card, or the label of the open file list,
\* and the cards of the page; a card with nothing left leaves the row.
AllAnswer(s, v) ==
    IF v = Null THEN UNCHANGED <<known, poster, row, asked>>
    ELSE /\ known' = [known EXCEPT ![s] = v]
         /\ poster' = IF at = "full" /\ of = s THEN v ELSE poster
         /\ asked' = IF at = "files" /\ of = s THEN asked \cup {Ask("label", s)} ELSE asked
         /\ row' = IF at = "main" /\ row[s] # Gone
                   THEN [row EXCEPT ![s] = IF v = Episode THEN Gone ELSE v] ELSE row

\* addNextEpisodeToExplorer
LabelAnswer(s, v) ==
    /\ known' = IF v = Null THEN known ELSE [known EXCEPT ![s] = v]
    /\ label' = IF at = "files" /\ of = s THEN v ELSE label

\* The plugin is about to hear of a change of s.
Told(s) ==
    \/ \E i \in DOMAIN messages : messages[i].profile = profile /\ messages[i].mark.show = s
    \/ \E p \in posts : p.stored = "new" /\ p.profile = profile /\ p.mark.show = s

\* Ticks from before a change that has been handled already.
Outdated(s, a) == a.kind = "ticks" /\ a.value \notin {Null, Now(s)} /\ ~Told(s)

\* An answer leaves the queue, wherever it stands.
Without(queue, i) == SubSeq(queue, 1, i - 1) \o SubSeq(queue, i + 1, Len(queue))

\* The i-th answer for show s arrives.
Arrive(s, i) ==
    LET a == answers[s][i] IN
    /\ answers' = [answers EXCEPT ![s] = Without(@, i)]
    /\ missed' = missed \cup (IF i > 1 THEN {"overtaken"} ELSE {})
                        \cup (IF a.late THEN {"profile"} ELSE {})
                        \cup (IF Outdated(s, a) THEN {"ticks"} ELSE {})
    /\ \/ a.kind = "poster" /\ PosterAnswer(s, a.value) /\ UNCHANGED <<row, label, cache, asked>>
       \/ a.kind = "all" /\ AllAnswer(s, a.value) /\ UNCHANGED <<label, cache>>
       \/ a.kind = "label" /\ LabelAnswer(s, a.value) /\ UNCHANGED <<row, poster, cache, asked>>
       \/ /\ a.kind = "ticks"
          /\ cache' = IF a.value = Null THEN cache ELSE [cache EXCEPT ![s] = a.value]
          /\ UNCHANGED <<row, poster, label, known, asked>>
    /\ UNCHANGED <<watched, profile, at, of, posts, messages, optimistic, confirmed, events, moves>>

Next ==
    \/ \E s \in Show : OpenCard(s)
    \/ OpenFiles \/ BackToMain
    \/ \E p \in Profile : SwitchProfile(p)
    \/ \E e \in Episode, on \in BOOLEAN : MarkHere(e, on)
    \/ \E p \in posts : Stored(p) \/ Saved(p) \/ SaveFails(p)
    \/ \E p \in Profile, m \in Mark : MarkElsewhere(p, m)
    \/ Message \/ MessageLost
    \/ \E a \in asked : Serve(a)
    \/ \E s \in Show : \E i \in DOMAIN answers[s] : Arrive(s, i)

Spec == Init /\ [][Next]_vars

-----------------------------------------------------------------------------

Quiet == asked = {} /\ posts = {} /\ messages = <<>> /\ \A s \in Show : answers[s] = <<>>

\* When nothing is under way any more, the badges and the ticks on the screen
\* say what the server says, in whatever order the marks, the messages and the
\* answers crossed; unless one of them was lost, an answer for a show overtook an
\* older one, ticks from before a change were stored after it was handled, an
\* answer arrived after a switch of profiles (the callbacks look at none of it),
\* or a change was taken for the one handled last.
SettledBadgesAreTrue ==
    Quiet /\ missed = {} =>
        /\ at = "full" => poster = Now(of)
        /\ at = "files" => label = Now(of)
        /\ at = "main" => \A s \in Show : row[s] \in {Now(s), Gone}
        /\ \A s \in Show : cache[s] \in {Null, Now(s)}

\* Violated by the code (1456): the answer that arrives last is not the newest.
AnswersCannotCross ==
    Quiet /\ missed \subseteq {"overtaken"} /\ at = "full" => poster = Now(of)

\* Violated by the code (1468): the change handled last is remembered without its
\* profile, so that the same one on the next profile is not shown.
ChangesAreOfTheirProfile ==
    Quiet /\ missed \subseteq {"repeated"} /\ at = "main" => \A s \in Show : row[s] \in {Now(s), Gone}

=============================================================================
