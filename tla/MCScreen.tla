------------------------------ MODULE MCScreen ------------------------------
(***************************************************************************)
(* The pure functions about a screen, checked on small screens: raw dumps  *)
(* grow node by node, and selector texts character by character.  Every    *)
(* property compares what the code computes with what it is for, stated    *)
(* without its stacks, scanners and orders of search.                      *)
(***************************************************************************)
EXTENDS XPath, FlowRecording, LayoutDiff, ScreenInventory

CONSTANTS MaxNodes,    \* nodes below the root of a dump
          MaxText,     \* characters typed after "text=", or after one of Begun
          MaxStatements \* statements of a project

MCTextParts == {<<"OK now", "OK">>}

Ime  == "ime"
Full == <<0, 0, 4, 4>>
Top  == <<0, 0, 4, 2>>
Low  == <<0, 2, 4, 4>>
Mid  == <<1, 0, 3, 2>>       \* its centre is Top's

RawNode == [type |-> "Text", text |-> None, desc |-> None, id |-> None, key |-> None, bundle |-> None,
            win |-> 0, click |-> FALSE, focus |-> FALSE, hidden |-> FALSE, fill |-> FALSE, z |-> 0,
            b |-> NoBox, kids |-> <<>>]
RawRoot == [RawNode EXCEPT !.type = "root", !.b = Full]

Templates == {
    [RawNode EXCEPT !.type = "Window", !.bundle = "app", !.win = 1, !.b = Full],
    [RawNode EXCEPT !.type = "Window", !.bundle = Ime, !.win = 2, !.b = Low, !.fill = TRUE],
    [RawNode EXCEPT !.type = "Column", !.b = Full, !.fill = TRUE],
    [RawNode EXCEPT !.type = "Button", !.text = "OK", !.b = Top, !.click = TRUE],
    [RawNode EXCEPT !.text = "OK", !.b = Mid],
    [RawNode EXCEPT !.text = "OK now", !.b = Low, !.z = -1],
    [RawNode EXCEPT !.type = "Button", !.id = "x", !.key = "x", !.b = Mid, !.click = TRUE],
    [RawNode EXCEPT !.type = "Button", !.text = "OK", !.key = "k", !.b = Low, !.hidden = TRUE, !.fill = TRUE],
    [RawNode EXCEPT !.text = "OK"]}

\* The projects: declarations, with which the rest is written, of three files of two modules.
Ma == <<"m", "pages/a">>
Mb == <<"m", "pages/b">>
Na == <<"n", "pages/a">>
Decl(kind, name, file, root, route) == [kind |-> kind, name |-> name, file |-> file, root |-> root, route |-> route, body |-> <<>>]
Struct(name, file) == Decl("struct", name, file, "plain", NoName)
Entry(name, file) == Decl("struct", name, file, "Entry", NoName)
Destination(name, file) == Decl("struct", name, file, "NavDestination", NoName)
Builder(name, file) == Decl("builder", name, file, "plain", NoName)
Project(decls, listed, routerMap, dispatch) ==
    [files |-> {Ma, Mb, Na}, decls |-> decls, listed |-> listed, routerMap |-> routerMap, dispatch |-> dispatch]
Route(name, module, file, fn) == [name |-> name, module |-> module, file |-> file, fn |-> fn]
AnySkeleton == Project(<<Entry("A", Ma), Struct("B", Ma), Struct("C", Ma)>>, <<Ma>>, <<>>, <<>>)
Skeletons ==
    {AnySkeleton,
     Project(<<Entry("A", Ma), Struct("B", Mb), Struct("B", Na)>>, <<Ma, Ma>>, <<>>, <<>>),
     Project(<<Entry("A", Ma), Entry("A", Mb), Struct("B", Na)>>, <<<<"m", "pages/c">>, Mb>>, <<>>, <<>>),
     Project(<<Entry("A", Ma), Decl("struct", "B", Ma, "Entry", "r1"), Entry("C", Ma)>>, <<Ma>>, <<>>, <<>>),
     Project(<<Destination("B", Ma), Builder("A", Ma), Destination("B", Na)>>, <<>>, <<Route("B", "m", Ma, "A"), Route("r2", "n", Na, "A")>>, <<>>),
     Project(<<Builder("B", Ma), Builder("A", Mb), Destination("C", Na)>>, <<Na>>, <<Route("r1", "m", Mb, "A"), Route("r1", "m", Ma, "B")>>, <<>>),
     Project(<<Entry("A", Ma), Destination("B", Mb), Destination("B", Na)>>, <<Ma>>, <<>>,
             <<[module |-> "m", file |-> Na, branches |-> <<[names |-> <<"r1", "r2">>, body |-> <<<<"call", "B">>>>], [names |-> <<>>, body |-> <<>>]>>]>>)}
Statements == {<<"content">>, <<"call", "A">>, <<"call", "B">>, <<"call", "C">>, <<"route", "r1">>, <<"route", "A">>}

VARIABLES raw,      \* a dump
          last,     \* the path of its last node in document order
          text,     \* what was typed after "text="
          project,  \* the sources of a project, written statement by statement
          writing   \* the declaration that is written
vars == <<raw, last, text, project, writing>>

Chars == {"a", " ", ",", "[", "]", "q", "bs", "0", "last", "id", "="}

Init == raw = RawRoot /\ last = <<>> /\ text = <<>> /\ project \in Skeletons /\ writing = 1

RECURSIVE AddAt(_, _, _)
AddAt(n, path, new) == IF path = <<>> THEN [n EXCEPT !.kids = Append(@, new)]
                       ELSE [n EXCEPT !.kids[path[1]] = AddAt(@, Tail(path), new)]

RECURSIVE WithoutAt(_, _)
WithoutAt(n, path) == IF Len(path) = 1 THEN [n EXCEPT !.kids = Front(@)]
                      ELSE [n EXCEPT !.kids[path[1]] = WithoutAt(@, Tail(path))]

RECURSIVE Size(_)
Size(n) == 1 + FoldLeft(LAMBDA s, k : s + Size(k), 0, n.kids)

\* Windows are children of the root, in the order they are painted in; the keyboard's is the last.
MayFollow(k, t) == IF k = 0 THEN findKeyboardWindow(raw, Ime) = <<>> ELSE t.type # "Window"

\* The next node is a child of the last one or of one of its ancestors.
Unwritten == writing = 1 /\ \A i \in DOMAIN project.decls : project.decls[i].body = <<>>
AddNode == /\ text = <<>> /\ Unwritten /\ project = AnySkeleton /\ Size(raw) <= MaxNodes
           /\ \E k \in 0 .. Len(last), t \in Templates :
                LET parent == SubSeq(last, 1, k)
                IN  /\ MayFollow(k, t)
                    /\ raw'  = AddAt(raw, parent, t)
                    /\ last' = Append(parent, Len(NodeAt(raw, parent).kids) + 1)
           /\ UNCHANGED <<text, project, writing>>

Type == /\ raw = RawRoot /\ Unwritten /\ project = AnySkeleton /\ Len(text) < MaxText
        /\ \E c \in Chars : text' = Append(text, c)
        /\ UNCHANGED <<raw, last, project, writing>>

\* Declarations are written one after the other, each a block of up to two statements.
Written == FoldLeft(LAMBDA n, d : n + Len(d.body), 0, project.decls)
Write == /\ raw = RawRoot /\ text = <<>> /\ Written < MaxStatements
         /\ \E i \in writing .. Len(project.decls), statement \in Statements :
              /\ Len(project.decls[i].body) < 2
              /\ project' = [project EXCEPT !.decls[i].body = Append(@, statement)]
              /\ writing' = i
         /\ UNCHANGED <<raw, last, text>>

Next == AddNode \/ Type \/ Write
Spec == Init /\ [][Next]_vars

Tree == PrunedDump(raw, TRUE)
Shown == selectableTree(dumpLayout(raw, TRUE, 0, Ime), 0)

-----------------------------------------------------------------------------
\* Two nodes, neither inside the other, are painted in the order of the first ancestors that differ.
PaintedAfter(q, p) ==
    \E k \in 1 .. Min({Len(p), Len(q)}) :
        /\ SubSeq(p, 1, k - 1) = SubSeq(q, 1, k - 1) /\ p[k] # q[k]
        /\ LET Z(path) == NodeAt(raw, SubSeq(path, 1, k)).z
           IN  Z(q) > Z(p) \/ (Z(q) = Z(p) /\ q[k] > p[k])

\* A node is marked covered exactly when a visible fill that is painted after it, and is no part of
\* it, holds its centre: dialogs and keyboards hide what is under them and never their own content.
CoveredIsPaintedOver ==
    LET all == ToSet(PathsOf(raw, <<>>))
        At_(p) == NodeAt(raw, p)
    IN  findCoveredNodes(raw) =
            {p \in all : /\ At_(p).b # NoBox
                         /\ \E q \in all : /\ At_(q).b # NoBox /\ At_(q).fill /\ ~At_(q).hidden
                                           /\ PaintedAfter(q, p)
                                           /\ FillContains(At_(q).b, Center(At_(p).b))}

\* The selector that record writes for the element under a touch is one that replay finds again on the
\* same screen, and finds there: not another element, not one that lies under something.  (The keys of a
\* soft keyboard are recorded as text; a copy of the element at the same place cannot be told apart.)
Twin(n, e) == n # e /\ Center(n.b) = Center(e.b) /\ \A f \in IDENTITY_FIELDS : e[f] # None => n[f] = e[f]
FindsAgain(tree, shown, e) ==
    Only({s = NoSelector \/ Only({picked.found /\ picked.node = e :
                 picked \in {pickTarget(shown, [kind |-> "dsl", clauses |-> s.clauses, index |-> s.index], <<>>)}}) :
             s \in {selectorFor(tree, e)}})
RecordedSelectorFindsElement ==
    \A e \in UNION {elementAt(Tree, p) : p \in {2, 4, 6} \X {1, 3, 5}} :
        \/ e.window = Ime
        \/ \E i \in DOMAIN flattenLayout(Tree) : Twin(flattenLayout(Tree)[i], e)
        \/ FindsAgain(Tree, Shown, e)

\* Whatever selector text is accepted, writing it out and reading that back gives the same clauses and
\* index: nothing in a value can close a quotation, open an index or lose its spaces, in a first clause
\* or in one after it.
Begun == {<<>>, <<"q", "a">>, <<"a", ",", "id", "=">>, <<"q", "]", "q", ",", "id", "*=">>}
SelectorReadsBack ==
    \A begun \in Begun : \A r \in {parseDsl(<<"text", "=">> \o begun \o text)} :
        r.ok => parseDsl(formatSelector(r.clauses, r.index)) = r

\* An XPath that asks for an attribute's value, alone and with a position among the matches, finds the
\* elements that the selector with the same clause and index finds, in the same order.
Word(v) == [t |-> "name", v |-> v]
Sign(t) == [t |-> t, v |-> t]
EveryWith(key, value) == <<Sign("//"), Word("*"), Sign("["), Sign("@"), Word(key),
                           [t |-> "op", v |-> "="], [t |-> "str", v |-> value], Sign("]")>>
Positioned(tokens, position) == <<Sign("(")>> \o tokens \o <<Sign(")"), Sign("[")>> \o position \o <<Sign("]")>>
Positions == {<<0, <<[t |-> "num", v |-> "1", n |-> 1]>>>>, <<1, <<[t |-> "num", v |-> "2", n |-> 2]>>>>,
              <<-1, <<Word("last"), Sign("("), Sign(")")>>>>}
Evaluated(tree, tokens) ==
    LET paths == evaluateXPath(tree, parseXPath(tokens).e)
    IN  [i \in DOMAIN paths |-> LET n == NodeAt(Document(tree), paths[i])
                                IN  <<n.type, n.text, n.id, n.key, n.b>>]
Fields(nodes) == [i \in DOMAIN nodes |-> <<nodes[i].type, nodes[i].text, nodes[i].id, nodes[i].key, nodes[i].b>>]
XPathMeansSelector ==
    \A kv \in {<<"text", "OK">>, <<"key", "x">>, <<"type", "Button">>} : \A tree \in {Shown} :
        \A all \in {matchSelector(tree, <<[key |-> kv[1], op |-> "=", value |-> kv[2]]>>)} :
            /\ Evaluated(tree, EveryWith(kv[1], kv[2])) = Fields(all)
            /\ \A p \in Positions :
                  Evaluated(tree, Positioned(EveryWith(kv[1], kv[2]), p[2])) = Fields(At(all, p[1]))

SelectorsMeanOneThing == SelectorReadsBack /\ XPathMeansSelector

\* The calls of each declaration, resolved to the nearest: of the same file, else of the same module, else the
\* first; a builder before a struct.
Distance(file, other) == CASE file = other -> 0 [] file # other /\ file[1] = other[1] -> 1 [] OTHER -> 2
Nearest(some, file) ==
    CHOOSE i \in some : \A j \in some :
        LET d(k) == Distance(file, DeclAt(project, k).file) IN d(i) < d(j) \/ (d(i) = d(j) /\ i <= j)
Meant(name, file) ==
    LET b == DeclsNamed(project, Builders(project), name)
        s == DeclsNamed(project, Structs(project), name)
    IN  CASE b # {} -> {Nearest(b, file)} [] b = {} /\ s # {} -> {Nearest(s, file)} [] OTHER -> {}
CallsOf(body) == {c[2] : c \in {x \in ToSet(body) : x[1] = "call"}}
RendersOf(body, file) == UNION {Meant(name, file) : name \in CallsOf(body)}
Renders(i) == RendersOf(DeclAt(project, i).body, DeclAt(project, i).file)
RECURSIVE Below(_)
Below(some) == LET more == some \cup UNION {Renders(i) : i \in some} IN IF more = some THEN some ELSE Below(more)
Cyclic(i) == i \in Below(Renders(i))
RECURSIVE ContentOf(_, _)
ContentOf(body, file) ==
    FoldLeft(LAMBDA n, c : n + CASE c[1] = "content" -> 1
                                 [] c[1] = "call" -> IF Meant(c[2], file) = {} THEN 1
                                                     ELSE LET i == Min(Meant(c[2], file))
                                                          IN  ContentOf(DeclAt(project, i).body, DeclAt(project, i).file)
                                 [] OTHER -> 0, 0, body)

\* The inventory is whole: a page renders, counts and leads to what its calls reach, each the nearest declaration of
\* its name, also where pages share what they render; names are unique in a module; and every @Entry struct, listed
\* file, route and unregistered destination is a page or is told of, if no page shows a struct of its name.
PageIsWhole(page) ==
    LET top == (IF page.builder # NoDecl THEN {page.builder} ELSE {page.st}) \ {NoDecl}
        all == Below(top)
    IN  /\ page.structs \subseteq all
        /\ (top # {} /\ ~ \E i \in all : Cyclic(i)) =>
              /\ page.structs = all \cap Structs(project)
              /\ page.nodes = ContentOf(DeclAt(project, Min(top)).body, DeclAt(project, Min(top)).file)
              /\ routesOut(project, page) = UNION {{c[2] : c \in {x \in ToSet(DeclAt(project, i).body) : x[1] = "route"}} :
                                                    i \in page.structs \cup top}
\* A specification written from the inventory is met; and where no name means two screens, a route is met only by
\* a call in what its page renders.
Reaches(page) == Below({page.st, page.builder} \ {NoDecl})
OneMeaning(inv) ==
    /\ \A i, j \in DOMAIN project.decls : DeclAt(project, i).name = DeclAt(project, j).name => i = j
    /\ \A p, q \in ToSet(inv.pages) : pageIds(project, p) \cap pageIds(project, q) # {} => p = q
SpecIsJudged(inv) ==
    \A page \in ToSet(inv.pages) :
        /\ checkScreen(project, inv, page.name, page.nodes)
        /\ \A to \in routesOut(project, page) : checkRoute(project, inv, page.name, to)
        /\ (OneMeaning(inv) /\ page.st # NoDecl) =>
              \A to \in {"r1", "r2", "A"} : checkRoute(project, inv, page.name, to) =>
                  \E call \in findRoutes(project) : call[1] \in Reaches(page) /\ sameScreen(project, inv, call[2], to)

InventoryIsWhole ==
    \A inv \in {inventoryScreens(project)} :
        LET pages == ToSet(inv.pages)
            Told(what, of) == <<what, of>> \in inv.warnings
        IN  /\ \A page \in pages : PageIsWhole(page)
            /\ \A j, k \in DOMAIN inv.pages : (inv.pages[j].name = inv.pages[k].name /\ inv.pages[j].module = inv.pages[k].module) => j = k
            /\ \A i \in DOMAIN project.decls : DeclAt(project, i).root = "Entry" =>
                  \E page \in pages : page.st = i \/ (page.name = DeclAt(project, i).file[2] /\ Told("more than once", page.name))
            /\ \A e \in ToSet(project.listed) :
                  \/ \E page \in pages : page.name = e[2] /\ page.module = e[1]
                  \/ \E what \in {"does not exist", "no @Entry"} : Told(what, e[2])
            /\ \A k \in DOMAIN project.routerMap :
                  LET e == project.routerMap[k]
                  IN  \/ \E page \in pages : page.name = e.name /\ page.module = e.module /\ DeclAt(project, page.builder).name = e.fn
                      \/ \E what \in {"does not exist", "no @Builder", "more than once"} : Told(what, e.name)
            /\ \A i \in DOMAIN project.decls : DeclAt(project, i).root = "NavDestination" =>
                  \/ \E page \in pages : page.st # NoDecl /\ DeclAt(project, page.st).name = DeclAt(project, i).name
                  \/ Told("more than once", DeclAt(project, i).name)
            /\ \A i \in Structs(project) : LET from == routeFrom(project, inv, i)
                                          IN  from = DeclAt(project, i).name \/ \E page \in pages : page.name = from
            /\ SpecIsJudged(inv)
            /\ \A name \in noContent(project, inv) : \E page \in pages : page.name = name /\ page.nodes = 0

\* A screen that has one more node differs from the one before in that element only: the others are
\* paired with themselves, whatever they have in common, and none counts as missing or moved.
NewElementIsTheOnlyDifference ==
    last # <<>> =>
        \A before \in {PrunedDump(WithoutAt(raw, last), TRUE)}, after \in {Tree} :
            \A d \in {diffLayouts(before, after)} :
                /\ d.missing = {} /\ d.moved = {} /\ Cardinality(d.extra) <= 1
                /\ \A p \in d.changed : p.changed = {"covered"}
=============================================================================
