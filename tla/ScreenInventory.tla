--------------------------- MODULE ScreenInventory ---------------------------
(***************************************************************************)
(* inventoryScreens (screens/screens.ts): the pages of a project, what they *)
(* render and where they lead, from its sources.  A source file is what the *)
(* scanner leaves of it: the declarations, each with the calls of its       *)
(* block in order, nested layouts, branches and item templates flattened.   *)
(*                                                                          *)
(* project.decls: [kind, name, file, root, route, body] in the order of the *)
(* files; root is "Entry", "NavDestination" or "plain", and a statement is  *)
(* <<"content">>, <<"call", name>> or <<"route", target>>.                  *)
(* project.listed, .routerMap, .dispatch: main_pages.json, the route maps   *)
(* and the .navDestination() builders, each entry with its module.          *)
(***************************************************************************)
EXTENDS Integers, SequencesExt, FiniteSetsExt

NoDecl == 0
NoName == "none"
ModuleOf(file) == file[1]
DeclAt(project, i) == project.decls[i]
Structs(project) == {i \in DOMAIN project.decls : DeclAt(project, i).kind = "struct"}
Builders(project) == DOMAIN project.decls \ Structs(project)
DeclsNamed(project, some, name) == {i \in some : DeclAt(project, i).name = name}

\* pick: the declaration of a name that is nearest to a file.
\* Mutant: the first one of the project.
pick_First(project, some, file) == IF some = {} THEN NoDecl ELSE Min(some)
pick(project, some, file) ==
    LET here == {i \in some : DeclAt(project, i).file = file}
        near == {i \in some : ModuleOf(DeclAt(project, i).file) = ModuleOf(file)}
    IN  CASE some = {}                -> NoDecl
          [] here # {}                -> Min(here)
          [] here = {} /\ near # {}   -> Min(near)
          [] OTHER                    -> Min(some)

------------------------------------------------------------------------------
\* What rendering a block reaches: content nodes, structs, and the first custom component that it calls.
\* `memo` has what is known of the structs, `visiting` what is being rendered.
NothingReached(memo) == [nodes |-> 0, structs |-> {}, first |-> NoDecl, memo |-> memo]
Unknown == [nodes |-> -1, structs |-> {}]

Memorised(i, reach) ==
    LET known == [nodes |-> reach.nodes, structs |-> reach.structs \cup {i}]
    IN  [nodes |-> known.nodes, structs |-> known.structs, first |-> i, memo |-> [reach.memo EXCEPT ![i] = known]]

RECURSIVE blockReach(_, _, _, _, _)
structReach(project, i, visiting, memo) ==
    IF memo[i] # Unknown THEN [nodes |-> memo[i].nodes, structs |-> memo[i].structs, first |-> i, memo |-> memo]
    ELSE IF i \in visiting THEN [nodes |-> 0, structs |-> {i}, first |-> i, memo |-> memo]
    ELSE Memorised(i, blockReach(project, DeclAt(project, i).file, DeclAt(project, i).body, visiting \cup {i}, memo))

Called(project, name, file, visiting, memo) ==
    LET b == pick(project, DeclsNamed(project, Builders(project), name), file)
        s == pick(project, DeclsNamed(project, Structs(project), name), file)
    IN  CASE b # NoDecl /\ b \in visiting -> NothingReached(memo)
          [] b # NoDecl /\ b \notin visiting ->
                blockReach(project, DeclAt(project, b).file, DeclAt(project, b).body, visiting \cup {b}, memo)
          [] b = NoDecl /\ s # NoDecl -> structReach(project, s, visiting, memo)
          [] OTHER -> [NothingReached(memo) EXCEPT !.nodes = 1]       \* a component of the platform

blockReach(project, file, body, visiting, memo) ==
    LET add(acc, statement) ==
            LET r == CASE statement[1] = "call"    -> Called(project, statement[2], file, visiting, acc.memo)
                       [] statement[1] = "content" -> [NothingReached(acc.memo) EXCEPT !.nodes = 1]
                       [] OTHER                    -> NothingReached(acc.memo)
            IN  [nodes |-> acc.nodes + r.nodes, structs |-> acc.structs \cup r.structs,
                 first |-> IF acc.first = NoDecl THEN r.first ELSE acc.first, memo |-> r.memo]
    IN  FoldLeft(add, NothingReached(memo), body)

------------------------------------------------------------------------------
\* A page, whose component is the first that it renders, and the inventory as it grows: [pages, warnings, memo].
Page(name, module, registered, builder, reach) ==
    [name |-> name, module |-> module, st |-> reach.first, registered |-> registered, builder |-> builder,
     nodes |-> reach.nodes, structs |-> reach.structs]
Warn(inv, what, of) == [inv EXCEPT !.warnings = @ \cup {<<what, of>>}]

\* Mutant: a later page of a name replaces none and is not warned of.
addPage_Silent(inv, page) ==
    IF \E k \in DOMAIN inv.pages : inv.pages[k].name = page.name /\ inv.pages[k].module = page.module
    THEN inv ELSE [inv EXCEPT !.pages = Append(@, page)]
addPage(inv, page) ==
    IF \E k \in DOMAIN inv.pages : inv.pages[k].name = page.name /\ inv.pages[k].module = page.module
    THEN Warn(inv, "more than once", page.name) ELSE [inv EXCEPT !.pages = Append(@, page)]
PageOf(inv, name, module, registered, builder, reach) ==
    addPage([inv EXCEPT !.memo = reach.memo], Page(name, module, registered, builder, reach))

isEntry(project, i) == DeclAt(project, i).kind = "struct" /\ DeclAt(project, i).root = "Entry"
entryPage(project, inv, i, name, registered) ==
    PageOf(inv, name, ModuleOf(DeclAt(project, i).file), registered, NoDecl, structReach(project, i, {}, inv.memo))

\* 1. What main_pages.json lists: the first @Entry struct of each file.
InFile(project, file) == {i \in DOMAIN project.decls : DeclAt(project, i).file = file}
ListedOf(project, entry) == {i \in InFile(project, entry) : isEntry(project, i)}
Listed_(project, inv, entry) ==
    CASE entry \notin project.files          -> Warn(inv, "does not exist", entry[2])
      [] entry \in project.files /\ ListedOf(project, entry) # {} ->
            entryPage(project, inv, Min(ListedOf(project, entry)), entry[2], TRUE)
      [] OTHER                               -> Warn(inv, "no @Entry", entry[2])
ListedPages(project, inv) == FoldLeft(LAMBDA acc, e : Listed_(project, acc, e), inv, project.listed)

\* 2. The other @Entry structs, by route name or else by file.
Unlisted(project) ==
    {i \in DOMAIN project.decls : isEntry(project, i)}
        \ {Min(ListedOf(project, e)) : e \in {x \in ToSet(project.listed) : ListedOf(project, x) # {}}}
NamedRoute(project, inv, i) ==
    LET d == DeclAt(project, i)
        told == IF d.route = NoName THEN Warn(inv, "not listed", d.name) ELSE inv
    IN  entryPage(project, told, i, IF d.route = NoName THEN d.file[2] ELSE d.route, d.route # NoName)
EntryPages(project, inv) ==
    FoldLeft(LAMBDA acc, i : NamedRoute(project, acc, i), inv, SetToSortSeq(Unlisted(project), <))

\* 3. The route maps: [module, name, file, fn].
MapBuilder(project, e) == {i \in DeclsNamed(project, Builders(project), e.fn) : DeclAt(project, i).file = e.file}
Mapped(project, inv, e) ==
    LET fn == Min(MapBuilder(project, e))
    IN  CASE e.file \notin project.files -> Warn(inv, "does not exist", e.name)
          [] e.file \in project.files /\ MapBuilder(project, e) = {} -> Warn(inv, "no @Builder", e.name)
          [] OTHER -> PageOf(inv, e.name, e.module, TRUE, fn,
                             blockReach(project, e.file, DeclAt(project, fn).body, {}, inv.memo))
MapPages(project, inv) == FoldLeft(LAMBDA acc, e : Mapped(project, acc, e), inv, project.routerMap)

\* 4. The builders of .navDestination() that are found: [module, file, branches], the module that of the call and the
\* file the builder's; a branch is the names that its condition compares with and its block.
Branch(project, d, inv, branch) ==
    FoldLeft(LAMBDA acc, name : PageOf(acc, name, d.module, TRUE, NoDecl,
                                       blockReach(project, d.file, branch.body, {}, acc.memo)), inv, branch.names)
Dispatch(project, inv, d) ==
    LET walked == FoldLeft(LAMBDA acc, b : Branch(project, d, acc, b), inv, d.branches)
        all == ToSet(d.branches)
    IN  CASE \E b \in all : b.names = <<>>   -> Warn(walked, "not a constant", d.file[2])
          [] all = {}                        -> Warn(walked, "no route name", d.file[2])
          [] OTHER                           -> walked
DispatchPages(project, inv) == FoldLeft(LAMBDA acc, d : Dispatch(project, acc, d), inv, project.dispatch)

\* 5. Structs rooted in a NavDestination that no page shows, by the names of what pages show.
Covered(project, inv) == {DeclAt(project, inv.pages[k].st).name : k \in {x \in DOMAIN inv.pages : inv.pages[x].st # NoDecl}}
NavOrphans(project, inv) ==
    {i \in Structs(project) : DeclAt(project, i).root = "NavDestination" /\ DeclAt(project, i).name \notin Covered(project, inv)}
Orphan(project, inv, i) ==
    entryPage(project, inv, i, DeclAt(project, i).name, FALSE)
\* The index keeps the structs of one name together, in the order in which the names were met.
IndexOrder(project) ==
    LET firstOf(i) == Min(DeclsNamed(project, Structs(project), DeclAt(project, i).name))
    IN  SetToSortSeq(Structs(project), LAMBDA i, j : <<firstOf(i), i>> # <<firstOf(j), j>> /\
                                        (firstOf(i) < firstOf(j) \/ (firstOf(i) = firstOf(j) /\ i < j)))
OrphanPages(project, inv) ==
    FoldLeft(LAMBDA acc, i : Orphan(project, acc, i), inv,
             SelectSeq(IndexOrder(project), LAMBDA i : i \in NavOrphans(project, inv)))

inventoryScreens(project) ==
    LET empty == [pages |-> <<>>, warnings |-> {}, memo |-> [i \in DOMAIN project.decls |-> Unknown]]
    IN  OrphanPages(project, DispatchPages(project, MapPages(project, EntryPages(project, ListedPages(project, empty)))))

------------------------------------------------------------------------------
\* The route calls with a literal target, each with the declaration that holds it.
findRoutes(project) ==
    UNION {{<<i, call[2]>> : call \in {c \in ToSet(DeclAt(project, i).body) : c[1] = "route"}} : i \in DOMAIN project.decls}

\* A page leads where the structs that it renders, or its builder, lead.
routesOut(project, page) ==
    {r[2] : r \in {x \in findRoutes(project) : x[1] \in page.structs \/ x[1] = page.builder}}

\* A call is told of the first page whose component is the struct that holds it, by module and name, else of that struct.
routeFrom(project, inv, i) ==
    LET shown == {k \in DOMAIN inv.pages :
                     /\ inv.pages[k].module = ModuleOf(DeclAt(project, i).file)
                     /\ inv.pages[k].st # NoDecl /\ DeclAt(project, inv.pages[k].st).name = DeclAt(project, i).name}
    IN  IF DeclAt(project, i).kind = "struct" /\ shown # {} THEN inv.pages[Min(shown)].name ELSE DeclAt(project, i).name

\* Pages that render no content, those apart whose build() is empty.
noContent(project, inv) ==
    {inv.pages[k].name : k \in {x \in DOMAIN inv.pages :
        /\ inv.pages[x].nodes = 0
        /\ ~(inv.pages[x].st # NoDecl /\ DeclAt(project, inv.pages[x].st).body = <<>>)}}

------------------------------------------------------------------------------
\* checkScreensAgainstSpec: a page answers to its name, the last segment of that, and its component, ignoring case.
norm(name) == CASE name = "A" -> "a" [] name = "B" -> "b" [] name = "C" -> "c" [] OTHER -> name
lastSegment(name) == CASE name = "pages/a" -> "a" [] name = "pages/b" -> "b" [] OTHER -> name
NamesOf(name) == {norm(name), norm(lastSegment(name))}
pageIds(project, page) ==
    NamesOf(page.name) \cup (IF page.st # NoDecl THEN {norm(DeclAt(project, page.st).name)} ELSE {})
pagesMatching(project, inv, name) == {page \in ToSet(inv.pages) : NamesOf(name) \cap pageIds(project, page) # {}}
Answers(project, inv, name) ==
    NamesOf(name) \cup UNION {pageIds(project, page) : page \in pagesMatching(project, inv, name)}
sameScreen(project, inv, one, other) == Answers(project, inv, one) \cap Answers(project, inv, other) # {}

\* A screen has a page with enough content.
checkScreen(project, inv, name, required) == \E page \in pagesMatching(project, inv, name) : page.nodes >= required
\* A route is pushed from the page that holds the call, or from one that leads to that call's target.
\* Mutant: only from the page that holds the call.
checkRoute_Held(project, inv, from, to) ==
    \E call \in {c \in findRoutes(project) : sameScreen(project, inv, c[2], to)} :
        sameScreen(project, inv, routeFrom(project, inv, call[1]), from)
checkRoute(project, inv, from, to) ==
    \E call \in {c \in findRoutes(project) : sameScreen(project, inv, c[2], to)} :
        \/ sameScreen(project, inv, routeFrom(project, inv, call[1]), from)
        \/ \E page \in pagesMatching(project, inv, from) : call[2] \in routesOut(project, page)
==============================================================================
