------------------------------- MODULE MC_Web -------------------------------
(***************************************************************************)
(* What the web client shows once everything has come to rest: its pages   *)
(* and rows, made of requests, messages of the web socket and the viewer's *)
(* moves crossing each other; and what it shares with the player: the      *)
(* menus that it, the plugins and the server edit, the settings of the     *)
(* plugins, and the codes that link a device.  They share no state; TLC    *)
(* runs them side by side, as MC_Clients does for the player.              *)
(***************************************************************************)
EXTENDS Integers, Sequences

CONSTANTS
    Show, Profile,
    Card, c1, p1,                        \* of the card's page, which opens with c1 and p1
    LastEpisode, Retries,
    LampaKeys, WebIds, Members, Block, NewYear, NewYearWeb, Old, FirstOrder, FirstHide,
    Key, LastPage,                       \* of the lists read page by page
    Category, Lists, NoRow, Live, AHEAD, \* of the carousel
    View,                                \* of the administrator's table
    Chosen,                              \* of the settings
    Code, MaxDevices, Nobody,            \* of the link with the server
    AdminAsks, LinkAsks,
    RowEvents, PageEvents, LibraryEvents, CarouselEvents, SettingEvents, LinkEvents, AdminEvents,
    RowMoves, PageMoves, LibraryMoves, CarouselMoves, MaxEdits, MaxChanges,
    MaxTime                              \* (bounds)

VARIABLES
    part, server, profile, place, items, loaded, cache, key, fetches, prefetching, finds,
    feed, events, moves, missed, kind, sorted, has, cats, cached, stale, emptyIds, active,
    row, crossed, marks, status, book, card, shown, loading, timecodesLoaded,
    watchStatusLoaded, episodesLoaded, episodesFinal, timecodes, watchStatus, isFavorite,
    reqs, posts, confirm, style, page, total, asked, changes, ways, order, hide, year, rows,
    list, saving, wish, edits, local, base, np, registered, pulls, waiting, patches, now,
    numparser_plugin, ping, linkable, attempts, recheck, section, badges, late, given,
    linked, devices, links, token, IS_NP, overlay, asks, used, job, drawn, poll, users,
    view, table, elsewhere

Rows == INSTANCE CatalogRows WITH MaxEvents <- RowEvents, MaxMoves <- RowMoves

Library == INSTANCE LibraryRow WITH MaxEvents <- LibraryEvents, MaxMoves <- LibraryMoves

Carousel == INSTANCE Carousel WITH MaxEvents <- CarouselEvents, MaxMoves <- CarouselMoves

Page == INSTANCE CardPage WITH
    Last <- LastEpisode, MaxEvents <- PageEvents, MaxMoves <- PageMoves

Grid == INSTANCE PagedGrid WITH Last <- LastPage

Menu == INSTANCE CategoryMenu

Admin == INSTANCE AdminPage WITH MaxAsks <- AdminAsks, MaxEvents <- AdminEvents

Settings == INSTANCE PluginSettings WITH MaxEvents <- SettingEvents

Registry == INSTANCE SettingsRegistry

Link == INSTANCE DeviceLink WITH
    None <- Nobody, MaxAsks <- LinkAsks, MaxEvents <- LinkEvents

ASSUME GridAssumption == LastPage \in Nat \ {0} /\ MaxChanges \in Nat

ASSUME AdminAssumption == AdminAsks \in Nat /\ AdminEvents \in Nat

ASSUME CarouselAssumption == NoRow \notin Category /\ Lists \subseteq Seq(Category)

ASSUME SettingsAssumption == Settings!Absent \notin Chosen

ASSUME RegistryAssumption == MaxTime \in Nat

ASSUME LinkAssumption ==
    Nobody \notin Code /\ MaxDevices \in Nat /\ LinkAsks \in Nat /\ LinkEvents \in Nat

Parts ==
    {"rows", "library", "carousel", "page", "grid", "menu", "settings", "registry", "link",
     "admin"}

Init ==
    /\ part \in Parts
    /\ part = "rows" => Rows!Init
    /\ part = "library" => Library!Init
    /\ part = "carousel" => Carousel!Init
    /\ part = "page" => Page!Init /\ card = c1 /\ profile = p1 /\ marks[p1][c1] # {}
    /\ part = "grid" => Grid!Init
    /\ part = "menu" => Menu!Init
    /\ part = "settings" => Settings!Init
    /\ part = "registry" => Registry!Init
    /\ part = "link" => Link!Init
    /\ part = "admin" => Admin!Init
    /\ part \notin {"rows", "library", "settings"} =>
          server = 0
    /\ part \notin {"rows", "library", "page", "settings"} =>
          profile = 0 /\ feed = 0
    /\ part \notin {"rows", "library", "carousel"} =>
          place = 0 /\ fetches = 0
    /\ part \notin {"rows", "library", "carousel", "grid"} =>
          items = 0
    /\ part \notin {"rows", "library"} =>
          loaded = 0 /\ cache = 0 /\ finds = 0
    /\ part \notin {"rows", "library", "grid"} =>
          key = 0
    /\ part \notin {"rows", "carousel"} =>
          prefetching = 0
    /\ part \notin {"rows", "library", "carousel", "page", "settings", "link", "admin"} =>
          events = 0
    /\ part \notin {"rows", "library", "carousel", "page"} =>
          moves = 0
    /\ part \notin {"rows", "library", "page", "settings", "link"} =>
          missed = 0
    /\ part # "library" =>
          kind = 0 /\ sorted = 0
    /\ part # "carousel" =>
          has = 0 /\ cats = 0 /\ cached = 0 /\ stale = 0 /\ emptyIds = 0 /\ active = 0
          /\ row = 0
    /\ part \notin {"carousel", "admin"} =>
          crossed = 0
    /\ part # "page" =>
          marks = 0 /\ book = 0 /\ card = 0 /\ shown = 0 /\ timecodesLoaded = 0 /\
          watchStatusLoaded = 0 /\ episodesLoaded = 0 /\ episodesFinal = 0 /\
          timecodes = 0 /\ watchStatus = 0 /\ isFavorite = 0 /\ reqs = 0 /\ posts = 0
          /\ confirm = 0
    /\ part \notin {"page", "admin"} =>
          status = 0
    /\ part \notin {"page", "grid"} =>
          loading = 0
    /\ part # "grid" =>
          style = 0 /\ page = 0 /\ total = 0 /\ asked = 0 /\ changes = 0
    /\ part \notin {"grid", "menu"} =>
          ways = 0
    /\ part # "menu" =>
          order = 0 /\ hide = 0 /\ year = 0 /\ rows = 0 /\ list = 0 /\ saving = 0 /\
          wish = 0 /\ edits = 0
    /\ part # "settings" =>
          local = 0 /\ base = 0 /\ np = 0 /\ registered = 0 /\ pulls = 0 /\
          waiting = 0 /\ patches = 0
    /\ part # "registry" =>
          now = 0 /\ numparser_plugin = 0 /\ ping = 0 /\ linkable = 0 /\ attempts = 0
          /\ recheck = 0 /\ section = 0 /\ badges = 0
    /\ part \notin {"registry", "link"} =>
          late = 0
    /\ part # "link" =>
          given = 0 /\ linked = 0 /\ devices = 0 /\ links = 0 /\ token = 0 /\
          IS_NP = 0 /\ overlay = 0 /\ used = 0
    /\ part \notin {"link", "admin"} =>
          asks = 0
    /\ part # "admin" =>
          job = 0 /\ drawn = 0 /\ poll = 0 /\ users = 0 /\ view = 0 /\ table = 0 /\
          elsewhere = 0

\* What belongs to other parts stays as it is.
Still ==
    /\ UNCHANGED part
    /\ part \notin {"rows", "library", "settings"} =>
          UNCHANGED <<server>>
    /\ part \notin {"rows", "library", "page", "settings"} =>
          UNCHANGED <<profile, feed>>
    /\ part \notin {"rows", "library", "carousel"} =>
          UNCHANGED <<place, fetches>>
    /\ part \notin {"rows", "library", "carousel", "grid"} =>
          UNCHANGED <<items>>
    /\ part \notin {"rows", "library"} =>
          UNCHANGED <<loaded, cache, finds>>
    /\ part \notin {"rows", "library", "grid"} =>
          UNCHANGED <<key>>
    /\ part \notin {"rows", "carousel"} =>
          UNCHANGED <<prefetching>>
    /\ part \notin {"rows", "library", "carousel", "page", "settings", "link", "admin"} =>
          UNCHANGED <<events>>
    /\ part \notin {"rows", "library", "carousel", "page"} =>
          UNCHANGED <<moves>>
    /\ part \notin {"rows", "library", "page", "settings", "link"} =>
          UNCHANGED <<missed>>
    /\ part # "library" =>
          UNCHANGED <<kind, sorted>>
    /\ part # "carousel" =>
          UNCHANGED <<has, cats, cached, stale, emptyIds, active, row>>
    /\ part \notin {"carousel", "admin"} =>
          UNCHANGED <<crossed>>
    /\ part # "page" =>
          UNCHANGED <<marks, book, card, shown, timecodesLoaded, watchStatusLoaded,
          episodesLoaded, episodesFinal, timecodes, watchStatus, isFavorite, reqs, posts,
          confirm>>
    /\ part \notin {"page", "admin"} =>
          UNCHANGED <<status>>
    /\ part \notin {"page", "grid"} =>
          UNCHANGED <<loading>>
    /\ part # "grid" =>
          UNCHANGED <<style, page, total, asked, changes>>
    /\ part \notin {"grid", "menu"} =>
          UNCHANGED <<ways>>
    /\ part # "menu" =>
          UNCHANGED <<order, hide, year, rows, list, saving, wish, edits>>
    /\ part # "settings" =>
          UNCHANGED <<local, base, np, registered, pulls, waiting, patches>>
    /\ part # "registry" =>
          UNCHANGED <<now, numparser_plugin, ping, linkable, attempts, recheck, section,
          badges>>
    /\ part \notin {"registry", "link"} =>
          UNCHANGED <<late>>
    /\ part # "link" =>
          UNCHANGED <<given, linked, devices, links, token, IS_NP, overlay, used>>
    /\ part \notin {"link", "admin"} =>
          UNCHANGED <<asks>>
    /\ part # "admin" =>
          UNCHANGED <<job, drawn, poll, users, view, table, elsewhere>>

Next ==
    \/ part = "rows" /\ Rows!Next /\ missed \subseteq {"progress"} /\ Still
    \/ part = "library" /\ Library!Next /\ missed = {} /\ Still
    \/ part = "carousel" /\ Carousel!Next /\ Still
    \/ part = "page" /\ Page!Next /\ missed = {} /\ (moves' = 0 \/ events' <= 1) /\ Still
    \/ part = "grid" /\ Grid!Next /\ Still
    \/ part = "menu" /\ Menu!Next /\ Still
    \/ part = "settings" /\ Settings!Next /\ missed = {} /\ Still
    \/ part = "registry" /\ Registry!Next /\ Still
    \/ part = "link" /\ Link!Next /\ Still
    \/ part = "admin" /\ Admin!Next /\ Still

vars ==
    <<part, server, profile, place, items, loaded, cache, key, fetches, prefetching, finds,
      feed, events, moves, missed, kind, sorted, has, cats, cached, stale, emptyIds, active,
      row, crossed, marks, status, book, card, shown, loading, timecodesLoaded,
      watchStatusLoaded, episodesLoaded, episodesFinal, timecodes, watchStatus, isFavorite,
      reqs, posts, confirm, style, page, total, asked, changes, ways, order, hide, year,
      rows, list, saving, wish, edits, local, base, np, registered, pulls, waiting, patches,
      now, numparser_plugin, ping, linkable, attempts, recheck, section, badges, late,
      given, linked, devices, links, token, IS_NP, overlay, asks, used, job, drawn, poll,
      users, view, table, elsewhere>>

Spec == Init /\ [][Next]_vars

\* Each part stays within its types (the state of the modules it instantiates).
Types ==
    /\ part = "rows" => Rows!TypeOK
    /\ part = "library" => Library!TypeOK
    /\ part = "carousel" => Carousel!TypeOK
    /\ part = "page" => Page!TypeOK
    /\ part = "grid" => Grid!TypeOK
    /\ part = "menu" => Menu!TypeOK
    /\ part = "settings" => Settings!TypeOK
    /\ part = "registry" => Registry!TypeOK
    /\ part = "link" => Link!TypeOK
    /\ part = "admin" => Admin!TypeOK

\* Once nothing is under way the rows of the web catalogue and of the page "Mine", and
\* what is cached of them, are those the server has for the active profile, and the
\* carousel of the catalogue rests on a row that has cards and steps over none that has
\* (CatalogPage, MediaLibraryPage), with the exceptions the modules name.
WebRowsComeTrue ==
    /\ part = "rows" => Rows!SettledRowsAreCurrent
    /\ part = "library" => Library!SettledRowIsOfProfile
    /\ part = "carousel" => Carousel!RestsOnCards

\* Once nothing is under way the page of a card shows the marks, the status and the
\* favourite the server has for that card and the active profile (CardDetailPage), and the
\* administrator's page polls a job that is shown as running and shows one it started
\* (AdminPage), with the exceptions the modules name.
PagesComeTrue ==
    /\ part = "page" => Page!SettledPageIsTrue
    /\ part = "admin" => Admin!SettledPageKnows

\* Whatever clients with different lists, a new year and old settings make of the order
\* and of the hidden categories, each start page has every category that is not hidden
\* once, in the order asked for, and none that was hidden (np.js, MenuOrderSettings).
MenusKeepTheirOrder ==
    part = "menu" => Menu!MenusAreWhole /\ Menu!HiddenUnlessUnknown

\* A list of the web client shows the pages of one key from the first on, none twice and
\* none left out, and in the end those of the present key: also after failed pages and
\* changes under a request (CategoryView, MediaLibraryView, the searches, HistoryPage,
\* NewCardsPage), with the exceptions the module names.
ListsFollowTheirKey ==
    part = "grid" => Grid!PagesFollow /\ Grid!SettledListIsOfItsKey

\* Once nothing is under way the settings screen shows the active profile's values as the
\* server has them, and the settings of both plugins are on it, each once, in whatever
\* order the plugins are loaded (np.js, np_unwatched.js); and the plugins take the server
\* as connected exactly if it knows their token (np.js), with the exceptions the modules
\* name.
SettingsComeTrue ==
    /\ part = "settings" => Settings!SettledSettingsAgree
    /\ part = "registry" => Registry!SectionIsWhole
    /\ part = "link" => Link!SettledLinkIsTrue

-----------------------------------------------------------------------------
(* The values of the small instance that are no model values *)

SmallKeys == <<"movies", "collections_block", "episodes">>
SmallIds == <<"movies", "genre_a", "genre_b", "tracker_new">>
SmallRenames == [lampac_movies |-> "movies"]
SmallOrders == {<<>>, <<"episodes", "lampac_movies", "movies">>}
SmallHides == {<<>>, <<"lampac_movies">>, <<"episodes">>}
SmallRows == {<<"a", "b", "c">>, <<"c", "a">>}

=============================================================================
