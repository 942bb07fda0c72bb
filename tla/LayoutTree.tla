----------------------------- MODULE LayoutTree -----------------------------
(***************************************************************************)
(* The layout of a device's screen: what `uitest dumpLayout` prints, the   *)
(* pruned tree the tools work on, and the choice of the element a command  *)
(* acts on (hdc/dump.ts, hdc/layoutQuery.ts, hdc/ime.ts).                  *)
(*                                                                         *)
(* A raw node is a record; an absent string is "", an absent number 0, an  *)
(* absent box <<>>.  `click` stands for every flag that makes a node worth *)
(* keeping (clickable, scrollable, checkable, long-clickable), `focus` for *)
(* those that do not, `desc` for description and hint.  Boxes are in units *)
(* of the display, centres in half units: rounding is left out.            *)
(***************************************************************************)
EXTENDS Integers, Sequences, SequencesExt

STRUCTURAL_TYPES == {"Column"}
None == ""
NoBox == <<>>

BareNode == [type |-> None, text |-> None, desc |-> None, id |-> None, key |-> None,
             bundle |-> None, windowId |-> 0, click |-> FALSE, focus |-> FALSE,
             hidden |-> FALSE, covered |-> FALSE, b |-> NoBox, kids |-> <<>>]

\* The member of a set of one.  f(e) is written Only({f(x) : x \in {e}}) where TLC should compute e once.
Only(S) == CHOOSE x \in S : TRUE

\* ------------------------------------------------------------- geometry
Center(b) == IF b = NoBox THEN <<>> ELSE <<b[1] + b[3], b[2] + b[4]>>
Area(b) == IF b = NoBox THEN 0 ELSE (b[3] - b[1]) * (b[4] - b[2])

\* A fill covers [x1, x2): its right and lower edges are outside.
FillContains(q, c) == /\ 2 * q[1] <= c[1] /\ c[1] < 2 * q[3]
                      /\ 2 * q[2] <= c[2] /\ c[2] < 2 * q[4]

BoxContains(b, c) == /\ b # NoBox /\ c # <<>>
                     /\ 2 * b[1] <= c[1] /\ c[1] <= 2 * b[3]
                     /\ 2 * b[2] <= c[2] /\ c[2] <= 2 * b[4]

\* ----------------------------------------------- painting order and cover
\* A node is named by its path: the child taken at every level.  A walk is a function of it, and of what it
\* hands down.
TreePaths == Seq(Nat)
NodeAt(root, path) ==
    LET at[k \in 0 .. Len(path)] == IF k = 0 THEN root ELSE at[k - 1].kids[path[k]] IN at[Len(path)]
PaintsFill(n) == n.fill /\ ~n.hidden

PaintedKids(n) == SetToSortSeq(DOMAIN n.kids,
                      LAMBDA i, j : \/ n.kids[i].z < n.kids[j].z
                                    \/ n.kids[i].z = n.kids[j].z /\ i < j)

PaintOrder(root) ==
    LET paint[path \in TreePaths] ==
            Only({<<[path |-> path, b |-> n.b, fills |-> n.b # NoBox /\ PaintsFill(n)]>>
                      \o FlattenSeq([k \in DOMAIN n.kids |-> paint[Append(path, PaintedKids(n)[k])]])
                  : n \in {NodeAt(root, path)}})
    IN  paint[<<>>]

\* With this, a node's own content covers it: the end of its subtree is left out.
findCoveredNodes_ByItsOwn(root) ==
    LET order == PaintOrder(root)
    IN  {order[i].path : i \in {k \in DOMAIN order :
            /\ order[k].b # NoBox
            /\ \E j \in k + 1 .. Len(order) : order[j].fills /\ FillContains(order[j].b, Center(order[k].b))}}

\* The paths of the nodes whose centre a later fill is painted over.
findCoveredNodes(root) ==
    LET order == PaintOrder(root)
        Ends(i) == {j \in i .. Len(order) : ~IsPrefix(order[i].path, order[j].path)}
    IN  {order[i].path : i \in {k \in DOMAIN order :
            /\ order[k].b # NoBox
            /\ \E j \in Ends(k) : order[j].fills /\ FillContains(order[j].b, Center(order[k].b))}}

\* ---------------------------------------------------------------- pruning
hasSignal(out) == \/ out.text # None \/ out.desc # None \/ out.id # None \/ out.key # None
                  \/ out.click \/ out.bundle # None \/ out.windowId # 0
                  \/ out.type \notin {None, "root"}

\* What a raw node says of itself, in the window it is in.
ownOf(n, display, covered, parentWindow) ==
    [BareNode EXCEPT !.b = IF display THEN n.b ELSE NoBox,
                     !.type = IF n.type \in STRUCTURAL_TYPES THEN None ELSE n.type,
                     !.text = n.text, !.desc = n.desc, !.id = n.id,
                     !.key = IF n.key = n.id THEN None ELSE n.key,
                     !.bundle = n.bundle, !.click = n.click, !.focus = n.focus,
                     !.hidden = n.hidden, !.covered = covered,
                     !.windowId = IF n.win # parentWindow THEN n.win ELSE 0]

\* What is left of a raw node: none, one, or (a collapsed wrapper's) several nodes.
prunedOf(n, own, kids) ==
    IF ~hasSignal(own) THEN kids
    ELSE <<[own EXCEPT !.kids = kids,
                       !.type = IF @ = None /\ n.type # "root" THEN n.type ELSE @]>>
pruneLayout(root, display, covered) ==
    LET prune[path \in TreePaths, parentWindow \in Nat] ==
            Only({prunedOf(n, ownOf(n, display, path \in covered, parentWindow),
                           FlattenSeq([i \in DOMAIN n.kids |->
                                          prune[Append(path, i), IF n.win # 0 THEN n.win ELSE parentWindow]]))
                  : n \in {NodeAt(root, path)}})
    IN  prune[<<>>, 0]

Rooted(pruned) == IF Len(pruned) = 1 THEN pruned[1] ELSE [BareNode EXCEPT !.kids = pruned]

\* The tree of a dump.
PrunedDump(raw, display) ==
    Rooted(pruneLayout(raw, display, findCoveredNodes(raw)))

\* ------------------------------------------------------------- flattening
hasOwnFields(n) == [n EXCEPT !.kids = <<>>] # BareNode

flatLayoutNode(n, window, windowId) ==
    [f \in (DOMAIN n \ {"kids"}) \union {"window"} |->
        CASE f = "window"   -> window
          [] f = "windowId" -> windowId
          [] OTHER          -> n[f]]

\* The window that a node is in: its own, or the enclosing one.
windowOf(n, window) == IF n.bundle # None THEN n.bundle ELSE window
windowIdOf(n, windowId) == IF n.windowId # 0 THEN n.windowId ELSE windowId

flattenLayout(tree) ==
    LET flatten[path \in TreePaths, window \in STRING, windowId \in Nat] ==
            Only({(IF hasOwnFields(n) THEN <<flatLayoutNode(n, windowOf(n, window), windowIdOf(n, windowId))>> ELSE <<>>)
                      \o FlattenSeq([i \in DOMAIN n.kids |->
                                         flatten[Append(path, i), windowOf(n, window), windowIdOf(n, windowId)]])
                  : n \in {NodeAt(tree, path)}})
    IN  flatten[<<>>, None, 0]

\* --------------------------------------------------------------- windows
listLayoutWindows(tree) ==
    LET windows[path \in TreePaths, bundle \in STRING] ==
            Only({(IF n.windowId # 0 THEN <<[windowId |-> n.windowId, bundle |-> windowOf(n, bundle)]>> ELSE <<>>)
                      \o FlattenSeq([i \in DOMAIN n.kids |-> windows[Append(path, i), windowOf(n, bundle)]])
                  : n \in {NodeAt(tree, path)}})
    IN  windows[<<>>, None]

\* A tree without the nodes below its root that are not kept, nor what is in them.
KeptIn(root, Keep(_)) ==
    LET strip[path \in TreePaths] ==
            LET n    == NodeAt(root, path)
                kept == SelectSeq([i \in DOMAIN n.kids |-> i], LAMBDA i : Keep(n.kids[i]))
            IN  [n EXCEPT !.kids = [k \in DOMAIN kept |-> strip[Append(path, kept[k])]]]
    IN  strip[<<>>]

\* The part of the tree that is window id, without the windows nested in it: a sequence of none or one tree.
windowSubtree(tree, id) ==
    LET roots[path \in TreePaths] ==
            LET n == NodeAt(tree, path)
            IN  IF n.windowId = id THEN <<KeptIn(n, LAMBDA c : c.windowId \in {0, id})>>
                ELSE FlattenSeq([i \in DOMAIN n.kids |-> roots[Append(path, i)]])
    IN  IF roots[<<>>] = <<>> THEN <<>> ELSE <<[BareNode EXCEPT !.kids = roots[<<>>]]>>

withoutWindow(tree, bundle) == KeptIn(tree, LAMBDA c : c.bundle # bundle)

\* Breadth first: the input method's window, or none.
findKeyboardWindow(tree, ime) ==
    LET search[queue \in Seq(TreePaths)] ==
            IF queue = <<>> THEN <<>>
            ELSE LET n == NodeAt(tree, queue[1])
                 IN  IF n.bundle # None /\ n.bundle = ime THEN <<n>>
                     ELSE search[Tail(queue) \o [i \in DOMAIN n.kids |-> Append(queue[1], i)]]
    IN  search[<<<<>>>>]

\* dumpLayout: the whole screen, or one window of it, and the soft keyboard.
\* `error` is a window that is not on screen.
dumpLayout(raw, display, windowId, ime) ==
    LET full == PrunedDump(raw, display)
        kb   == findKeyboardWindow(full, ime)
        sub  == IF windowId = 0 THEN <<full>> ELSE windowSubtree(full, windowId)
    IN  IF sub = <<>> THEN [error |-> "windowNotFound"]
        ELSE [error |-> None, display |-> display, tree |-> sub[1],
              keyboard |-> IF kb = <<>> THEN None ELSE kb[1].bundle]

\* What selectors search: not the keys of the soft keyboard, unless its window was asked for.
selectableTree(layout, windowId) ==
    IF layout.keyboard # None /\ windowId = 0
    THEN withoutWindow(layout.tree, layout.keyboard) ELSE layout.tree
=============================================================================
