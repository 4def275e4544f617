---------------------------- MODULE CategoryMenu ----------------------------
(***************************************************************************)
(* The order and the visibility of the rows of the start page, one pair of *)
(* settings of a profile (numparser_menu_sort, numparser_menu_hide) that   *)
(* two clients read and write: the Lampa plugin (src/plugins/np.js) and    *)
(* the web client (utils/catalogCategories.ts, hooks/useMenuOrder.ts,      *)
(* components/MenuOrderSettings.tsx, pages/CatalogPage.tsx).  Neither      *)
(* knows every category of the other: some are local to Lampa, the web has *)
(* genres in place of the block of collections, both have a new year every *)
(* January, and old settings hold keys of earlier versions.                *)
(***************************************************************************)
EXTENDS Naturals, Sequences, FiniteSets, SequencesExt

CONSTANTS
    LampaKeys,    \* getAllCategories of the plugin, before the new year
    WebIds,       \* the list of /api/categories with "unwatched" before it, likewise
    Members,      \* ids of genres, actors and directors
    Block,        \* "collections_block"
    NewYear,      \* the category of the year that begins, in the plugin's spelling
    NewYearWeb,   \* and in the server's spelling
    Old,          \* KEY_RENAMES: a key of an earlier version to the present one
    FirstOrder, FirstHide,  \* settings as an earlier version may have left them
    MaxEdits      \* (bound) editors opened, changes made in them, rows dragged, years begun

VARIABLES
    order, hide,  \* the two settings
    year,         \* the new year has begun
    rows,         \* the list in the web's editor, a set of at most one
    list,         \* the list in the plugin's editor, likewise
    saving,       \* the rows whose visibility the web has still to write
    wish,         \* (history) what the user hid and has not shown since
    ways,         \* (history) the ways to lose a wish, named below, that were taken
    edits

vars == <<order, hide, year, rows, list, saving, wish, ways, edits>>

Ways == {"unknown", "renamed", "unwritten", "overlap"}

TypeOK ==
    /\ order \in Seq(STRING) /\ hide \in Seq(STRING)
    /\ IsInjective(order) /\ IsInjective(hide)
    /\ year \in BOOLEAN
    /\ \A set \in {rows, list, saving} : Cardinality(set) <= 1
    /\ wish \subseteq STRING /\ ways \subseteq Ways
    /\ edits \in 0..MaxEdits

-----------------------------------------------------------------------------
(* The settings as each client reads them *)

Keys == LampaKeys \o (IF year THEN <<NewYear>> ELSE <<>>)
Ids == WebIds \o (IF year THEN <<NewYearWeb>> ELSE <<>>)

\* The years have a name of their own at the server; the settings have the plugin's.
ToShared(id) == IF id = NewYearWeb THEN NewYear ELSE id
FromShared(key) == IF key = NewYear THEN NewYearWeb ELSE key
AllShared(seq) == [i \in DOMAIN seq |-> ToShared(seq[i])]
AllOwn(seq) == [i \in DOMAIN seq |-> FromShared(seq[i])]

Renamed(key) == IF key \in DOMAIN Old THEN Old[key] ELSE key

\* Mutant: what has two names is listed twice.
MigratedTwice(seq) == [i \in DOMAIN seq |-> Renamed(seq[i])]

\* Every key under its present name, the first of those that became the same.
Migrated(seq) ==
    FoldLeft(LAMBDA done, key : IF Renamed(key) \in ToSet(done) THEN done ELSE Append(done, Renamed(key)),
             <<>>, seq)

\* The web does not collapse the block where its rows stand for themselves.
Collapsed(ids) ==
    FoldLeft(LAMBDA done, id : IF id \notin Members THEN Append(done, id)
                               ELSE IF Block \in ToSet(done) THEN done ELSE Append(done, Block),
             <<>>, ids)

Without(seq, gone) == SelectSeq(seq, LAMBDA key : key \notin gone)
Saved(seq, known) == SelectSeq(seq, LAMBDA key : key \in known)

\* A new category goes behind the nearest of its predecessors that the menu has.
Placed(menu, key) ==
    LET before == {i \in DOMAIN Keys : \E j \in DOMAIN Keys : Keys[j] = key /\ i < j /\ Keys[i] \in ToSet(menu)}
    IN  IF before = {} THEN Append(menu, key)
        ELSE LET near == Keys[CHOOSE i \in before : \A j \in before : j <= i]
             IN  InsertAt(menu, 1 + CHOOSE i \in DOMAIN menu : menu[i] = near, key)

\* category() of the plugin: the saved order, the new ones in their places, without the hidden.
LampaOrder == FoldLeft(Placed, Saved(Migrated(order), ToSet(Keys)), Without(Keys, ToSet(Migrated(order))))
LampaMenu == Without(LampaOrder, ToSet(Migrated(hide)))

\* applyMenuOrder: the block stands for the genres, which come as the page shuffled them.
WebMenu ==
    LET saved == AllOwn(order)
        hidden == ToSet(AllOwn(hide))
        block == IF Block \in hidden THEN <<>> ELSE Saved(Ids, Members)
        rest == Without(Ids, Members \cup hidden)
        ordered == SelectSeq(saved, LAMBDA id : id = Block \/ id \in ToSet(rest))
        blocks == [i \in DOMAIN ordered |-> IF ordered[i] = Block THEN block ELSE <<ordered[i]>>]
    IN  IF order = <<>> THEN Without(Ids, hidden \cup (IF Block \in hidden THEN Members ELSE {}))
        ELSE FlattenSeq(blocks) \o Without(rest, ToSet(saved))
                \o (IF Block \in ToSet(saved) THEN <<>> ELSE block)

-----------------------------------------------------------------------------
Init ==
    /\ order \in FirstOrder /\ hide \in FirstHide
    /\ year = FALSE
    /\ rows = {} /\ list = {} /\ saving = {}
    /\ wish = ToSet(Migrated(hide))
    /\ ways = {} /\ edits = 0

Edit == edits < MaxEdits /\ edits' = edits + 1

YearBegins ==
    /\ Edit /\ ~year /\ rows = {} /\ list = {}
    /\ year' = TRUE
    /\ UNCHANGED <<order, hide, rows, list, saving, wish, ways>>

\* The plugin draws the start page: old keys are renamed for good, an order nobody
\* made yet becomes the present one.
ShowHome ==
    /\ order' = IF order = <<>> THEN Keys ELSE Migrated(order)
    /\ hide' = Migrated(hide)
    /\ UNCHANGED <<year, rows, list, saving, wish, ways, edits>>

-----------------------------------------------------------------------------
(* The plugin's editor *)

Row(key, hidden) == [key |-> key, hidden |-> key \in hidden]

\* It reads the settings as they are, and puts new categories at the end.
OpenEditor ==
    /\ Edit /\ list = {}
    /\ order' = IF order = <<>> THEN Keys ELSE order
    /\ LET shown == Saved(order', ToSet(Keys)) \o Without(Keys, ToSet(order'))
       IN  list' = {[i \in DOMAIN shown |-> Row(shown[i], ToSet(hide))]}
    /\ ways' = ways \cup (IF ToSet(hide) \cap DOMAIN Old = {} THEN {} ELSE {"renamed"})
    /\ UNCHANGED <<hide, year, rows, saving, wish>>

Swapped(seq, i, j) == [seq EXCEPT ![i] = seq[j], ![j] = seq[i]]
Wished(seq) == {seq[i].key : i \in {j \in DOMAIN seq : seq[j].hidden}}
KeysOf(seq) == [i \in DOMAIN seq |-> seq[i].key]
HiddenOf(seq) == KeysOf(SelectSeq(seq, LAMBDA row : row.hidden))

\* A row is moved up or down, or its tick changed; all ticks are set or cleared.
MoveRow ==
    \E seq \in list : \E i \in DOMAIN seq : i + 1 \in DOMAIN seq /\ list' = {Swapped(seq, i, i + 1)}
ToggleRow ==
    \E seq \in list : \E i \in DOMAIN seq :
        /\ list' = {[seq EXCEPT ![i].hidden = ~@]}
        /\ wish' = IF seq[i].hidden THEN wish \ {seq[i].key} ELSE wish \cup {seq[i].key}
ToggleAll ==
    \E seq \in list : \E hidden \in BOOLEAN :
        /\ list' = {[i \in DOMAIN seq |-> [seq[i] EXCEPT !.hidden = hidden]]}
        /\ wish' = IF hidden THEN wish \cup ToSet(KeysOf(seq)) ELSE wish \ ToSet(KeysOf(seq))

EditList ==
    /\ Edit
    /\ \/ MoveRow /\ UNCHANGED wish
       \/ ToggleRow
       \/ ToggleAll
    /\ UNCHANGED <<order, hide, year, rows, saving, ways>>

\* (history) The list lacks a category that is to stay hidden; the other editor is open.
Unlisted(keys) == IF wish \subseteq ToSet(keys) THEN {} ELSE {"unknown"}
Overlap(other) == IF other = {} THEN {} ELSE {"overlap"}

\* Going back saves: what the list does not have is gone from both settings.
CloseEditor ==
    /\ \E seq \in list :
          /\ order' = KeysOf(seq)
          /\ hide' = HiddenOf(seq)
          /\ ways' = ways \cup Unlisted(KeysOf(seq)) \cup Overlap(rows)
    /\ list' = {}
    /\ UNCHANGED <<year, rows, saving, wish, edits>>

ResetEditor ==
    /\ list # {}
    /\ order' = <<>> /\ hide' = <<>> /\ list' = {}
    /\ wish' = {} /\ ways' = ways \cup Overlap(rows)
    /\ UNCHANGED <<year, rows, saving, edits>>

-----------------------------------------------------------------------------
(* The web's editor and its page *)

\* The editor of the web: saved ones first, the others after them.
OpenRows ==
    /\ Edit /\ rows = {} /\ saving = {}
    /\ LET natural == Collapsed(Ids)
           saved == AllOwn(order)
           shown == Saved(saved, ToSet(natural)) \o Without(natural, ToSet(saved))
       IN  rows' = {[i \in DOMAIN shown |-> Row(shown[i], ToSet(AllOwn(hide)))]}
    /\ UNCHANGED <<order, hide, year, list, saving, wish, ways>>

\* An arrow, a drag by the handle, a tap, and the two buttons for all of them.
DragRow ==
    \E seq \in rows : \E i, j \in DOMAIN seq :
        i # j /\ rows' = {InsertAt(RemoveAt(seq, i), j, seq[i])}
TapRow ==
    \E seq \in rows : \E i \in DOMAIN seq : rows' = {[seq EXCEPT ![i].hidden = ~@]}
SetAllHidden ==
    \E seq \in rows : \E hidden \in BOOLEAN :
        rows' = {[i \in DOMAIN seq |-> [seq[i] EXCEPT !.hidden = hidden]]}
ResetRows ==
    rows # {} /\ rows' = {[i \in DOMAIN Collapsed(Ids) |-> Row(Collapsed(Ids)[i], {})]}

EditRows ==
    /\ Edit /\ saving = {}
    /\ DragRow \/ TapRow \/ SetAllHidden \/ ResetRows
    /\ UNCHANGED <<order, hide, year, list, saving, wish, ways>>

CloseRows ==
    /\ rows # {} /\ saving = {}
    /\ rows' = {}
    /\ UNCHANGED <<order, hide, year, list, saving, wish, ways, edits>>

Answers == {"ok", "error"}

\* Saving writes the order first; the user wishes what the rows say.
SaveOrder(answer) ==
    /\ saving = {}
    /\ \E seq \in rows :
          LET keys == AllShared(KeysOf(seq))
              hidden == ToSet(AllShared(HiddenOf(seq)))
          IN  /\ order' = IF answer = "ok" THEN keys ELSE order
              /\ saving' = {seq}
              /\ wish' = (wish \ ToSet(keys)) \cup hidden
    /\ UNCHANGED <<hide, year, rows, list, ways, edits>>

\* Mutant: the ids are written as the server spells them.
SaveHiddenUntranslated(answer) ==
    /\ \E seq \in saving :
          /\ hide' = IF answer = "ok" THEN HiddenOf(seq) ELSE hide
          /\ ways' = ways
                \cup (IF answer = "ok" THEN {} ELSE {"unwritten"})
                \cup Unlisted(AllShared(KeysOf(seq))) \cup Overlap(list)
    /\ saving' = {}
    /\ UNCHANGED <<order, year, rows, list, wish, edits>>

\* Then the visibility, whatever became of the order.
SaveHidden(answer) ==
    /\ \E seq \in saving :
          /\ hide' = IF answer = "ok" THEN AllShared(HiddenOf(seq)) ELSE hide
          /\ ways' = ways
                \cup (IF answer = "ok" THEN {} ELSE {"unwritten"})
                \cup Unlisted(AllShared(KeysOf(seq))) \cup Overlap(list)
    /\ saving' = {}
    /\ UNCHANGED <<order, year, rows, list, wish, edits>>

\* A row of the page is dragged to another: the order of what the page shows is saved.
DragOnPage ==
    /\ Edit
    /\ \E i, j \in DOMAIN WebMenu :
          /\ i # j
          /\ order' = AllShared(Collapsed(InsertAt(RemoveAt(WebMenu, i), j, WebMenu[i])))
    /\ UNCHANGED <<hide, year, rows, list, saving, wish, ways>>

Next ==
    \/ YearBegins \/ ShowHome
    \/ OpenEditor \/ EditList \/ CloseEditor \/ ResetEditor
    \/ OpenRows \/ EditRows \/ CloseRows
    \/ \E answer \in Answers : SaveOrder(answer) \/ SaveHidden(answer)
    \/ DragOnPage

Spec == Init /\ [][Next]_vars

-----------------------------------------------------------------------------
(* Properties *)

Once(seq, what) == IsInjective(seq) /\ ToSet(seq) = what
InOrder(seq, saved) == Saved(saved, ToSet(seq)) = Saved(seq, ToSet(saved))

\* Whatever two clients with different lists, a new year and old settings make of the
\* order, each start page has every category that is not hidden exactly once, and those
\* that were ordered stand in that order (category in np.js, applyMenuOrder).
MenusAreWhole ==
    /\ Once(LampaMenu, ToSet(Keys) \ ToSet(Migrated(hide)))
    /\ InOrder(LampaMenu, Migrated(order))
    /\ Once(WebMenu, LET hidden == ToSet(AllOwn(hide))
                     IN  ToSet(Ids) \ (hidden \cup (IF Block \in hidden THEN Members ELSE {})))

\* A category the user hid is hidden on the start page of both clients until the user
\* shows it again (catalogCategories.ts: the same saved values mean the same thing on
\* both clients).
HiddenStaysHidden ==
    (rows = {} /\ list = {}) =>
        /\ wish \cap ToSet(LampaMenu) = {}
        /\ wish \cap ToSet(AllShared(Collapsed(WebMenu))) = {}

\* That fails only where an editor saves over a category it does not list or a key it does
\* not recognise, or a write is refused; else the plugin's page hides what was hidden.
HiddenUnlessUnknown ==
    (rows = {} /\ list = {} /\ ways = {}) => wish \cap ToSet(LampaMenu) = {}
=============================================================================
