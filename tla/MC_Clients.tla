----------------------------- MODULE MC_Clients -----------------------------
(***************************************************************************)
(* What the player shows once everything has come to rest: the parts of    *)
(* the plugins that are made of requests, messages and the viewer's moves  *)
(* crossing each other.  They share no state; TLC runs them side by side,  *)
(* each in behaviours of its own, and each property speaks of its parts.   *)
(***************************************************************************)
EXTENDS Integers, Sequences

CONSTANTS
    Shows, Profile, Episode, Nobody,
    Cards, Hash,                         \* favourites and open cards
    RowShow, Most, Depth, Tries,         \* of the line of unwatched shows
    Poster, Foreign, Url, NoUrl, Limit,  \* of the start page's background and panel
    Places, LastId,                      \* of the device's profiles
    Work, Catalog, CachedLists, Latin, Han,  \* of the search for a card's entry
    LineJobs, ProfileLoads, RosterAsks, Chains,
    LineEvents, ProfileEvents, BadgeEvents, StatusEvents,
    BadgeMoves, StatusMoves, BackgroundMoves, InfoMoves, RosterMoves, MatchMoves  \* (bounds)

VARIABLES
    part, account, saved, results, line, row, stack, poster, misplaced, last, dirty, jobs, events,
    gone, behind, favs, marks, active, fav, view, favBackup, viewBackup, up, timer, loads,
    writes, news, made, seen, crossed, rows, orphans, next, face, menu, list, loading,
    history, asks, moves, watched, profile, at, of, label, known, cache, asked, answers,
    posts, messages, optimistic, confirmed, missed, server, open, marked, puts, gets, feed,
    finds, page, loaded, joins, applied, backdrop, focused, pending, image, layer, fading,
    ways, render, details, current, asking, info, title, entry, logos, reactions, counts,
    chains, checked, pairs, counted

Line == INSTANCE UnwatchedLine WITH
    Show <- Shows, None <- Nobody, MaxTries <- Tries, MaxJobs <- LineJobs,
    MaxEvents <- LineEvents

Profiles == INSTANCE PlayerProfiles WITH
    Card <- Cards, None <- Nobody, MaxEvents <- ProfileEvents, MaxLoads <- ProfileLoads

Roster == INSTANCE ProfileMenu WITH
    None <- Nobody, Limit <- Places, Last <- LastId, MaxAsks <- RosterAsks, MaxMoves <- RosterMoves

Badges == INSTANCE ProgressBadges WITH
    Show <- Shows, MaxEvents <- BadgeEvents, MaxMoves <- BadgeMoves

Statuses == INSTANCE StatusRows WITH
    Show <- Shows, MaxEvents <- StatusEvents, MaxMoves <- StatusMoves

Background == INSTANCE BackgroundPanel WITH Card <- Poster, MaxMoves <- BackgroundMoves

Info == INSTANCE InfoPanel WITH Card <- Poster, MaxMoves <- InfoMoves

Match == INSTANCE ShowMatch WITH
    Card <- Work, None <- Nobody, Lists <- CachedLists, MaxChains <- Chains, MaxMoves <- MatchMoves

ASSUME LineAssumption == Most \in Nat /\ Depth \in Nat /\ LineEvents \in Nat

\* What stands for no profile is no list of favourites and no id.
ASSUME ProfilesAssumption ==
    (\A S \in SUBSET Cards : S # Nobody) /\ ProfileEvents \in Nat

ASSUME RosterAssumption ==
    LastId \in Nat \ {0} /\ RosterMoves \in Nat /\ Nobody \notin Nat

\* The value for no card is no card, that for no picture no picture, that for no row no row.
ASSUME PosterAssumption == Info!None \notin Poster

ASSUME BackgroundAssumption == Background!None \notin Poster /\ NoUrl \notin Url

\* The Kinopoisk number of a show is its own, and so is the IMDb number of one whose name
\* and year fit (myshows.js trusts them); and the cards of a cached list are those of its
\* entries.
ASSUME MatchAssumption ==
    /\ DOMAIN Catalog \subseteq Nat
    /\ \A l \in CachedLists : DOMAIN l \subseteq Nat
    /\ \A c \in Work : c.kind \in {"movie", "tv"} /\ c.alts \in Seq({c.alts[i] : i \in DOMAIN c.alts})
    /\ \A c \in Work, e \in Match!Entry :
         /\ e.kind = "tv"
         /\ (c.kp # 0 /\ e.kp = c.kp) \/ (c.imdb # 0 /\ e.imdb = c.imdb /\ Match!ImdbFits(c, e))
         => Match!Own(c, e)
    /\ \A l \in CachedLists : \A i \in DOMAIN l : \A c \in Work : l[i].id = c.id => Match!Own(c, l[i].entry)

Parts ==
    {"line", "profiles", "roster", "badges", "statuses", "background", "info", "match"}

Init ==
    /\ part \in Parts
    /\ part = "line" => Line!Init
    /\ part = "profiles" => Profiles!Init
    /\ part = "roster" => Roster!Init
    /\ part = "badges" => Badges!Init
    /\ part = "statuses" => Statuses!Init
    /\ part = "background" => Background!Init
    /\ part = "info" => Info!Init
    /\ part = "match" => Match!Init
    /\ part # "line" =>
          account = 0 /\ saved = 0 /\ results = 0 /\ stack = 0 /\ misplaced = 0 /\ dirty = 0 /\
          jobs = 0 /\ gone = 0 /\ behind = 0
    /\ part \notin {"line", "statuses"} =>
          line = 0
    /\ part \notin {"line", "badges", "statuses"} =>
          row = 0
    /\ part \notin {"line", "badges"} =>
          poster = 0
    /\ part \notin {"line", "background"} =>
          last = 0
    /\ part \notin {"line", "profiles", "badges", "statuses"} =>
          events = 0
    /\ part # "profiles" =>
          favs = 0 /\ marks = 0 /\ fav = 0 /\ view = 0 /\ favBackup = 0 /\
          viewBackup = 0 /\ up = 0 /\ loads = 0 /\ writes = 0 /\ news = 0 /\ made = 0
    /\ part \notin {"profiles", "roster"} =>
          active = 0 /\ crossed = 0
    /\ part \notin {"profiles", "background", "info"} =>
          timer = 0
    /\ part \notin {"profiles", "statuses"} =>
          seen = 0
    /\ part # "roster" =>
          rows = 0 /\ orphans = 0 /\ next = 0 /\ face = 0 /\ menu = 0 /\ loading = 0
          /\ history = 0 /\ asks = 0
    /\ part \notin {"roster", "match"} =>
          list = 0
    /\ part \notin {"roster", "badges", "statuses", "background", "info", "match"} =>
          moves = 0
    /\ part # "badges" =>
          watched = 0 /\ profile = 0 /\ at = 0 /\ of = 0 /\ label = 0 /\ asked = 0 /\
          answers = 0 /\ posts = 0 /\ messages = 0 /\ optimistic = 0 /\ confirmed = 0
    /\ part \notin {"badges", "statuses", "info"} =>
          known = 0
    /\ part \notin {"badges", "background"} =>
          cache = 0
    /\ part \notin {"badges", "statuses"} =>
          missed = 0
    /\ part # "statuses" =>
          server = 0 /\ marked = 0 /\ puts = 0 /\ gets = 0 /\ feed = 0 /\ finds = 0 /\
          page = 0 /\ loaded = 0 /\ joins = 0 /\ applied = 0
    /\ part \notin {"statuses", "match"} =>
          open = 0
    /\ part # "background" =>
          backdrop = 0 /\ pending = 0 /\ image = 0 /\ layer = 0 /\ fading = 0
    /\ part \notin {"background", "info"} =>
          focused = 0 /\ ways = 0
    /\ part # "info" =>
          render = 0 /\ details = 0 /\ current = 0 /\ asking = 0 /\ info = 0 /\
          title = 0 /\ entry = 0 /\ logos = 0 /\ reactions = 0 /\ counts = 0
    /\ part # "match" =>
          chains = 0 /\ checked = 0 /\ pairs = 0 /\ counted = 0

\* What belongs to other parts stays as it is.
Still ==
    /\ UNCHANGED part
    /\ part # "line" =>
          UNCHANGED <<account, saved, results, stack, misplaced, dirty, jobs, gone, behind>>
    /\ part \notin {"line", "statuses"} =>
          UNCHANGED <<line>>
    /\ part \notin {"line", "badges", "statuses"} =>
          UNCHANGED <<row>>
    /\ part \notin {"line", "badges"} =>
          UNCHANGED <<poster>>
    /\ part \notin {"line", "background"} =>
          UNCHANGED <<last>>
    /\ part \notin {"line", "profiles", "badges", "statuses"} =>
          UNCHANGED <<events>>
    /\ part # "profiles" =>
          UNCHANGED <<favs, marks, fav, view, favBackup, viewBackup, up, loads, writes,
          news, made>>
    /\ part \notin {"profiles", "roster"} =>
          UNCHANGED <<active, crossed>>
    /\ part \notin {"profiles", "background", "info"} =>
          UNCHANGED <<timer>>
    /\ part \notin {"profiles", "statuses"} =>
          UNCHANGED <<seen>>
    /\ part # "roster" =>
          UNCHANGED <<rows, orphans, next, face, menu, loading, history, asks>>
    /\ part \notin {"roster", "match"} =>
          UNCHANGED <<list>>
    /\ part \notin {"roster", "badges", "statuses", "background", "info", "match"} =>
          UNCHANGED <<moves>>
    /\ part # "badges" =>
          UNCHANGED <<watched, profile, at, of, label, asked, answers, posts, messages,
          optimistic, confirmed>>
    /\ part \notin {"badges", "statuses", "info"} =>
          UNCHANGED <<known>>
    /\ part \notin {"badges", "background"} =>
          UNCHANGED <<cache>>
    /\ part \notin {"badges", "statuses"} =>
          UNCHANGED <<missed>>
    /\ part # "statuses" =>
          UNCHANGED <<server, marked, puts, gets, feed, finds, page, loaded, joins, applied>>
    /\ part \notin {"statuses", "match"} =>
          UNCHANGED <<open>>
    /\ part # "background" =>
          UNCHANGED <<backdrop, pending, image, layer, fading>>
    /\ part \notin {"background", "info"} =>
          UNCHANGED <<focused, ways>>
    /\ part # "info" =>
          UNCHANGED <<render, details, current, asking, info, title, entry, logos,
          reactions, counts>>
    /\ part # "match" =>
          UNCHANGED <<chains, checked, pairs, counted>>

\* (bound) Of the badges, several changes or several screens.
BadgesWithin == events' <= 1 \/ moves' <= 1

\* (bound) Of the line, a third event only while two cards are open.
LineWithin == events' \in {events, 1, 2} \/ Len(stack') = 2

Next ==
    \/ part = "line" /\ Line!Next /\ LineWithin /\ Still
    \/ part = "profiles" /\ Profiles!Next /\ Still
    \/ part = "roster" /\ Roster!Next /\ Still
    \/ part = "badges" /\ Badges!Next /\ missed = {} /\ BadgesWithin /\ Still
    \/ part = "statuses" /\ Statuses!Next /\ missed = {} /\ Still
    \/ part = "background" /\ Background!Next /\ Still
    \/ part = "info" /\ Info!Next /\ Still
    \/ part = "match" /\ Match!Next /\ Still

vars ==
    <<part, account, saved, results, line, row, stack, poster, misplaced, last, dirty, jobs, events,
      gone, behind, favs, marks, active, fav, view, favBackup, viewBackup, up, timer, loads,
      writes, news, made, seen, crossed, rows, orphans, next, face, menu, list, loading,
      history, asks, moves, watched, profile, at, of, label, known, cache, asked, answers,
      posts, messages, optimistic, confirmed, missed, server, open, marked, puts, gets,
      feed, finds, page, loaded, joins, applied, backdrop, focused, pending, image, layer,
      fading, ways, render, details, current, asking, info, title, entry, logos, reactions,
      counts, chains, checked, pairs, counted>>

Spec == Init /\ [][Next]_vars

\* Each part stays within its types (the state of the modules it instantiates).
Types ==
    /\ part = "line" => Line!TypeOK
    /\ part = "profiles" => Profiles!TypeOK
    /\ part = "roster" => Roster!TypeOK
    /\ part = "badges" => Badges!TypeOK
    /\ part = "statuses" => Statuses!TypeOK
    /\ part = "background" => Background!TypeOK
    /\ part = "info" => Info!TypeOK
    /\ part = "match" => Match!TypeOK

\* A card leaves the line of unwatched shows only when its show was out of the account's
\* list at some moment, or its episodes were counted off, never because a request failed
\* or a list came late or twice; and the poster of an open card shows no other card's
\* marks, however late an answer comes (np_unwatched.js).
LineShowsItsOwn ==
    part = "line" => Line!OnlyGoneShowsLeave /\ Line!MarksOfOpenCard

\* The favourites kept for a profile were marked under it, the timecodes on screen are
\* those of the active profile, and the active profile is one of the device's, under the
\* name the server has for it: through switches, messages, failures, restarts, renamings
\* and deletions (np_profiles.js); with the exceptions the modules name.
ProfilesStayApart ==
    /\ part = "profiles" => Profiles!FavouritesStayApart /\ Profiles!ProgressIsOfActive
    /\ part = "roster" => Roster!SettledProfileExists

\* Once nothing is under way the badges, ticks, rows and lit buttons in the player say
\* what the server says, in whatever order marks, messages and answers crossed
\* (np_unwatched.js), with the exceptions the modules name.
PlayerComesTrue ==
    /\ part = "badges" => Badges!SettledBadgesAreTrue
    /\ part = "statuses" => Statuses!SettledRowsAreTrue

\* The start page of the player follows the viewer: its backdrop and its panel are those of
\* the card in focus, however late images, details and reactions come (int.js), with the
\* exceptions the modules name.
StartPageFollows ==
    /\ part = "background" => Background!SettledBackgroundIsOfFocus
    /\ part = "info" => Info!PanelIsOfFocus

\* The status and the episodes set for a card of MyShows are set in its own entry,
\* whichever of the searches for it fail, also when films and shows share a title or a
\* number (myshows.js), with the exceptions the module names.
MatchesAreOwn == part = "match" => Match!FoundIsOwn

-----------------------------------------------------------------------------
(* The values of the small instance that are no model values *)

Entry(id, k, t, alts, english, y, date, imdb, kp) ==
    [id |-> id, kind |-> k, title |-> t, alts |-> alts, english |-> english,
     year |-> y, date |-> date, imdb |-> imdb, kp |-> kp]

Offered(id, k, t, y, date, imdb, kp, work) ==
    [id |-> id, kind |-> k, title |-> t, year |-> y, date |-> date,
     imdb |-> imdb, kp |-> kp, of |-> work]

\* Two films of one title a year apart, two shows of one title, a show in an Asian
\* script with two other titles, a film in Cyrillic.
SmallWorks ==
    {Entry(1, "movie", {"it"}, <<>>, {}, 2017, 1, 0, 0),
     Entry(2, "movie", {"it"}, <<>>, {}, 2018, 2, 0, 0),
     Entry(3, "tv", {"healer"}, <<>>, {}, 2017, 3, 7, 0),
     Entry(4, "tv", {"healer"}, <<>>, {}, 2018, 4, 0, 8),
     Entry(5, "tv", {"han"}, <<{"one"}, {"two"}>>, {"two"}, 2017, 5, 9, 0),
     Entry(6, "movie", {"brat"}, <<>>, {}, 2017, 6, 0, 0)}

\* The service has all but the last, and a third show that bears the number of the first.
SmallCatalog ==
    <<Offered(12, "movie", {"it"}, 2018, 2, 0, 0, 2), Offered(11, "movie", {"it"}, 2017, 1, 0, 0, 1),
      Offered(14, "tv", {"healer"}, 2020, 4, 7, 0, 0), Offered(15, "tv", {"healer"}, 2018, 4, 0, 8, 4),
      Offered(13, "tv", {"healer"}, 2017, 3, 0, 0, 3), Offered(16, "tv", {"two"}, 2017, 5, 9, 0, 5),
      Offered(17, "movie", {"brat", "vse"}, 2017, 7, 0, 0, 0)>>

\* Cached lists in which one of the two shows has no card yet.
SmallLists ==
    {<<[entry |-> SmallCatalog[5], id |-> 0], [entry |-> SmallCatalog[4], id |-> 4],
       [entry |-> SmallCatalog[6], id |-> 5]>>,
     <<[entry |-> SmallCatalog[4], id |-> 0], [entry |-> SmallCatalog[5], id |-> 3]>>}

=============================================================================
