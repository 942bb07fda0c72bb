---------------------------- MODULE ElementTarget ----------------------------
(***************************************************************************)
(* Which element a command means (hdc/dump.ts): the fields of `--target`   *)
(* or a parsed `--selector`, and the one element picked among the matches. *)
(* A query is [kind |-> "target", text, id, type] or                       *)
(* [kind |-> "dsl", clauses, index]; an XPath query behaves as a selector  *)
(* without an index of its own, on the nodes XPath!evaluateXPath gives.    *)
(***************************************************************************)
EXTENDS Selector

isElementSelector(q) == q.kind # "target"
Labels(n) == {n.text, n.desc} \ {None}

\* Every match in paint order.  A text matches labels exactly or, if it does so nowhere, in part.
findLayoutNodes(tree, q) ==
    IF isElementSelector(q) THEN matchSelector(tree, q.clauses)
    ELSE LET flat == flattenLayout(tree)
             all  == {i \in DOMAIN flat :
                        /\ q.type # None => flat[i].type = q.type
                        /\ q.id # None => q.id \in {flat[i].id, flat[i].key}}
             same == {i \in all : q.text \in Labels(flat[i])}
             part == {i \in all : \E l \in Labels(flat[i]) : Includes(l, q.text)}
             m    == Sorted(IF q.text = None THEN all ELSE IF same # {} THEN same ELSE part)
         IN  [k \in DOMAIN m |-> flat[m[k]]]

\* Negative counts from the end: a sequence of none or one.
At(list, i) == LET k == IF i < 0 THEN Len(list) + i + 1 ELSE i + 1
               IN  IF k \in DOMAIN list THEN <<list[k]>> ELSE <<>>

\* The index that a query pins: a selector's own, else the caller's.
selectorIndex(q, index) == IF ~isElementSelector(q) THEN <<>>
                           ELSE IF q.index # <<>> THEN q.index ELSE index

Found(n)   == [found |-> TRUE, node |-> n]
Failed(why) == [found |-> FALSE, reason |-> why]

visibleAmong(matches, pin) == SelectSeq(IF pin # <<>> THEN At(matches, pin[1]) ELSE matches, LAMBDA n : ~n.covered)
firstOf(visible) == IF visible = <<>> THEN Failed("none") ELSE Found(visible[1])
findVisibleMatch(tree, q) ==
    Only({firstOf(visible) : visible \in {visibleAmong(findLayoutNodes(tree, q), selectorIndex(q, <<>>))}})

enclosesTarget(outer, inner) == /\ BoxContains(outer.b, Center(inner.b))
                                /\ Area(outer.b) > Area(inner.b)

pickPinned(all, i) ==
    LET n == At(all, i)
    IN  IF n = <<>> THEN Failed(IF all # <<>> THEN "ambiguous" ELSE "none")
        ELSE IF n[1].b = NoBox THEN Failed("none")
        ELSE IF n[1].covered THEN Failed("covered")
        ELSE Found(n[1])

\* Uncovered, clickable if any is, and not inside another clickable candidate.
Candidates(visible) ==
    LET clickable == SelectSeq(visible, LAMBDA n : n.click)
        preferred == IF clickable # <<>> THEN clickable ELSE visible
    IN  Those(preferred, {i \in DOMAIN preferred :
                             ~\E j \in DOMAIN preferred \ {i} :
                                 preferred[j].click /\ enclosesTarget(preferred[j], preferred[i])})

pickAmong(all, visible, cands, index) ==
    IF \A k \in DOMAIN all : all[k].b = NoBox THEN Failed("none")
    ELSE IF visible = <<>> /\ (\E k \in DOMAIN all : all[k].b # NoBox) THEN Failed("covered")
    ELSE IF visible # <<>> /\ index # <<>> /\ index[1] + 1 \in DOMAIN cands THEN Found(cands[index[1] + 1])
    ELSE IF visible # <<>> /\ index = <<>> /\ Len(cands) = 1 THEN Found(cands[1])
    ELSE Failed("ambiguous")
pickVisible(all, visible, index) == Only({pickAmong(all, visible, cands, index) : cands \in {Candidates(visible)}})
pickTarget(tree, q, index) ==
    Only({IF selectorIndex(q, index) # <<>> THEN pickPinned(all, selectorIndex(q, index)[1])
          ELSE pickVisible(all, SelectSeq(all, LAMBDA n : n.b # NoBox /\ ~n.covered), index) :
             all \in {findLayoutNodes(tree, q)}})
=============================================================================
