------------------------------ MODULE QuickLinks ------------------------------
(***************************************************************************)
(* The quick links of a user: the tiles that admins make and those of the    *)
(* user, the saved order (internal/quicklinks, internal/db/quicklinks.go),   *)
(* and the grid in the browser that shows, drags, adds and deletes them      *)
(* without waiting for the server (QuickLinksGrid.tsx).                      *)
(***************************************************************************)
EXTENDS Integers, Sequences, FiniteSets, SequencesExt

CONSTANTS
  MaxTiles,    \* bound: tiles ever made
  MaxMoves     \* bound: changes by the user or an admin, and reloads

ASSUME QuickLinksAssumption == MaxTiles \in Nat /\ MaxMoves \in Nat

VARIABLES
  adminLinks,   \* admin_quick_links by sort_order
  userLinks,    \* user_quick_links by created_at
  order,        \* user_tile_order: the saved references
  nextTile,     \* what makes a tile's id new
  grid,         \* the tiles of the open page
  loading,      \* what GET /v1/quick-links has read so far
  patches,      \* orders on their way to the server
  adding,       \* creations on their way, each with the tiles its dialog was drawn with
  deleting,     \* tiles whose deletion is on its way
  muddled,      \* history: since the page was loaded a request of it failed or
                \* overtook another, an admin changed the tiles, or the user went on
                \* behind a dialog whose creation was not answered
  moves

linkVars == <<adminLinks, userLinks, order, nextTile, grid, loading, patches, adding,
              deleting, muddled, moves>>

-----------------------------------------------------------------------------
Tile(type, n) == [type |-> type, id |-> n]
NoLoad == [pc |-> "idle", admin |-> << >>, user |-> << >>]
NewTile(a) == Tile("user", a.new)

LinksInit ==
  /\ adminLinks = << >> /\ userLinks = << >> /\ order = << >> /\ nextTile = 1
  /\ grid = << >> /\ loading = NoLoad /\ patches = {} /\ adding = {}
  /\ deleting = {} /\ muddled = FALSE /\ moves = 0

(* The loops of mergedTiles and the filter of the grid: the members of s that *)
(* are in A, in their order. (SelectSeq, with a set for its test.)           *)
keep(s, A) ==
  LET F[i \in 0 .. Len(s)] ==
        IF i = 0 THEN << >> ELSE IF s[i] \in A THEN Append(F[i - 1], s[i]) ELSE F[i - 1]
  IN  F[Len(s)]

without(s, A) == keep(s, ToSet(s) \ A)

(* The saved tiles that exist, in their order, then the others: the admins'  *)
(* and then the user's.                                                      *)
unsaved(tiles, refs) == without(tiles, ToSet(refs))

mergedTiles(admin, user, refs) ==
  keep(refs, ToSet(admin) \cup ToSet(user))
    \o unsaved(admin, refs) \o unsaved(user, refs)

-----------------------------------------------------------------------------
(* The page *)

InFlight == patches # {} \/ adding # {} \/ deleting # {}

Moved == moves < MaxMoves /\ moves' = moves + 1

(* ListHandler reads the three tables one after the other. The page that is  *)
(* left no longer shows the answers to its requests, and still sends the     *)
(* order after a creation, unless the browser has loaded anew.               *)
Load ==
  /\ loading = NoLoad /\ Moved
  /\ loading' = [NoLoad EXCEPT !.pc = "user", !.admin = adminLinks]
  /\ muddled' = InFlight
  /\ \E left \in {{}, {[a EXCEPT !.here = FALSE] : a \in adding}} : adding' = left
  /\ grid' = << >> /\ deleting' = {}
  /\ UNCHANGED <<adminLinks, userLinks, order, nextTile, patches>>

ListUserQuickLinks ==
  /\ loading.pc = "user"
  /\ loading' = [loading EXCEPT !.pc = "order", !.user = userLinks]
  /\ UNCHANGED <<adminLinks, userLinks, order, nextTile, grid, patches, adding, deleting,
                 muddled, moves>>

GetUserTileOrder ==
  /\ loading.pc = "order"
  /\ grid' = mergedTiles(loading.admin, loading.user, order)
  /\ loading' = NoLoad
  /\ UNCHANGED <<adminLinks, userLinks, order, nextTile, patches, adding, deleting, muddled, moves>>

(* A failed list is ignored, and the grid stays as it is.                    *)
LoadFails ==
  /\ loading # NoLoad /\ loading' = NoLoad /\ muddled' = TRUE
  /\ UNCHANGED <<adminLinks, userLinks, order, nextTile, grid, patches, adding, deleting, moves>>

Shown == loading = NoLoad

(* saveOrder is sent and not waited for.                                     *)
persistOrder(tiles, behind) ==
  /\ patches' = patches \cup {tiles}
  /\ muddled' = (muddled \/ patches # {} \/ behind)

(* handleDrop: splice out, splice in. The dialog may be closed, and tiles    *)
(* dragged, before its creation is answered.                                 *)
handleDrop(src, target) ==
  /\ src # target /\ Moved
  /\ LET next == InsertAt(RemoveAt(grid, src), target, grid[src]) IN
     grid' = next /\ persistOrder(next, adding # {})
  /\ UNCHANGED <<adminLinks, userLinks, order, nextTile, loading, adding, deleting>>

SetUserTileOrderMutant(tiles) == order' = IF order = << >> THEN tiles ELSE order

SetUserTileOrder(tiles) == order' = tiles

SaveOrder(tiles) ==
  /\ SetUserTileOrder(tiles)
  /\ patches' = patches \ {tiles}
  /\ UNCHANGED <<adminLinks, userLinks, nextTile, grid, loading, adding, deleting, muddled, moves>>

SaveFails(tiles) ==
  /\ patches' = patches \ {tiles} /\ muddled' = TRUE
  /\ UNCHANGED <<adminLinks, userLinks, order, nextTile, grid, loading, adding, deleting, moves>>

(* The dialog can be sent before the list has come, and sent again before    *)
(* the server has answered.                                                  *)
CreateUserQuickLink ==
  /\ nextTile <= MaxTiles /\ Moved
  /\ userLinks' = Append(userLinks, Tile("user", nextTile)) /\ nextTile' = nextTile + 1
  /\ adding' = adding \cup {[tiles |-> grid, new |-> nextTile, here |-> TRUE]}
  /\ muddled' = (muddled \/ adding # {} \/ ~Shown)
  /\ UNCHANGED <<adminLinks, order, grid, loading, patches, deleting>>

(* The grid of now gets the tile; the order that is sent is that of the      *)
(* moment the dialog was sent, with the tile at its end.                     *)
handleTileAdded(a) ==
  /\ grid' = IF a.here THEN Append(grid, NewTile(a)) ELSE grid
  /\ persistOrder(Append(a.tiles, NewTile(a)), FALSE)
  /\ adding' = adding \ {a}
  /\ UNCHANGED <<adminLinks, userLinks, order, nextTile, loading, deleting, moves>>

AddFails(a) ==
  /\ adding' = adding \ {a} /\ muddled' = TRUE
  /\ UNCHANGED <<adminLinks, userLinks, order, nextTile, grid, loading, patches, deleting, moves>>

DeleteUserQuickLink(t) ==
  /\ t.type = "user" /\ t \notin deleting /\ Moved
  /\ userLinks' = without(userLinks, {t})
  /\ deleting' = deleting \cup {t}
  /\ UNCHANGED <<adminLinks, order, nextTile, grid, loading, patches, adding, muddled>>

(* The answer takes the tile out of the grid, unless it is an error.         *)
handleDelete(t, ok) ==
  /\ deleting' = deleting \ {t}
  /\ IF ok THEN grid' = without(grid, {t}) /\ UNCHANGED muddled
           ELSE UNCHANGED grid /\ muddled' = TRUE
  /\ UNCHANGED <<adminLinks, userLinks, order, nextTile, loading, patches, adding, moves>>

-----------------------------------------------------------------------------
(* The admin panel: a tile goes where its sort_order puts it.                *)
AdminTiles(links) ==
  /\ Moved
  /\ adminLinks' = links /\ muddled' = TRUE
  /\ UNCHANGED <<userLinks, order, grid, loading, patches, adding, deleting>>

CreateAdminQuickLink(k) ==
  /\ nextTile <= MaxTiles /\ nextTile' = nextTile + 1
  /\ AdminTiles(InsertAt(adminLinks, k, Tile("admin", nextTile)))

UpdateAdminQuickLink(j, k) ==
  /\ j # k /\ UNCHANGED nextTile
  /\ AdminTiles(InsertAt(RemoveAt(adminLinks, j), k, adminLinks[j]))

DeleteAdminQuickLink(k) ==
  /\ UNCHANGED nextTile
  /\ AdminTiles(RemoveAt(adminLinks, k))

LinksNext ==
  \/ Load \/ ListUserQuickLinks \/ GetUserTileOrder \/ LoadFails
  \/ \E i, j \in DOMAIN grid : handleDrop(i, j)
  \/ \E tiles \in patches : SaveOrder(tiles) \/ SaveFails(tiles)
  \/ CreateUserQuickLink \/ \E a \in adding : handleTileAdded(a) \/ AddFails(a)
  \/ \E t \in ToSet(grid) : DeleteUserQuickLink(t)
  \/ \E t \in deleting, ok \in BOOLEAN : handleDelete(t, ok)
  \/ \E k \in 1 .. Len(adminLinks) + 1 : CreateAdminQuickLink(k)
  \/ \E j, k \in DOMAIN adminLinks : UpdateAdminQuickLink(j, k)
  \/ \E k \in DOMAIN adminLinks : DeleteAdminQuickLink(k)

-----------------------------------------------------------------------------
(* The optimistic grid tells the truth: once the server has answered, a      *)
(* reload would show the tiles just as they are shown. It need not be so if  *)
(* a request failed or overtook another, if an admin changed the tiles, or   *)
(* if the user dragged a tile or added another while a creation was on its   *)
(* way or before the list had come: handleTileAdded then sends an order that *)
(* is no longer the one shown.                                               *)
ReloadShowsGrid ==
  Shown /\ ~InFlight /\ ~muddled => mergedTiles(adminLinks, userLinks, order) = grid
=============================================================================
