------------------------------ MODULE LayoutDiff ------------------------------
(***************************************************************************)
(* How much of one screen is on another (hdc/layoutDiff.ts): the elements  *)
(* of two pruned trees are paired, and the pairs give a similarity.        *)
(*                                                                         *)
(* A fraction is <<numerator, denominator>>; the rounding to three digits  *)
(* is left out.  An element is named by its place in flattenLayout.        *)
(***************************************************************************)
EXTENDS LayoutTree, FiniteSetsExt

LOCAL Least(a, b) == IF a < b THEN a ELSE b
LOCAL Most(a, b)  == IF a < b THEN b ELSE a

Zero == <<0, 1>>
One  == <<1, 1>>
Plus(p, q)  == <<p[1] * q[2] + q[1] * p[2], p[2] * q[2]>>
Above(p, q) == p[1] * q[2] > q[1] * p[2]
Equals(p, q) == p[1] * q[2] = q[1] * p[2]

boxIoU(a, b) ==
    LET inter == Most(0, Least(a[3], b[3]) - Most(a[1], b[1])) * Most(0, Least(a[4], b[4]) - Most(a[2], b[2]))
        union == Area(a) + Area(b) - inter
    IN  IF a = NoBox /\ b = NoBox THEN One
        ELSE IF a = NoBox \/ b = NoBox THEN Zero
        ELSE IF union <= 0 THEN (IF a = b THEN One ELSE Zero)
        ELSE <<inter, union>>

label(n) == IF n.text # None THEN n.text ELSE n.desc
COMPARED_FIELDS == {"type", "text", "desc", "click", "covered"}

RULES == <<"id", "key", "text", "type">>
SameBy(rule, a, b) ==
    CASE rule = "id"   -> a.id # None /\ a.id = b.id
      [] rule = "key"  -> a.key # None /\ a.key = b.key
      [] rule = "text" -> label(a) # None /\ label(a) = label(b) /\ a.type = b.type
      [] rule = "type" -> a.type # None /\ a.type = b.type /\ Above(boxIoU(a.b, b.b), Zero)

\* With this, the sort is in the wrong direction.
Before_WorstFirst(p, q) == \/ Above(q.iou, p.iou)
                           \/ Equals(p.iou, q.iou) /\ (p.i < q.i \/ (p.i = q.i /\ p.j < q.j))
\* The pair a rule takes next: the highest IoU, then the first of the baseline, then of the current.
Before(p, q) == \/ Above(p.iou, q.iou)
                \/ Equals(p.iou, q.iou) /\ (p.i < q.i \/ (p.i = q.i /\ p.j < q.j))

RECURSIVE Greedy(_)
Greedy(open) ==
    IF open = {} THEN {}
    ELSE UNION {{p} \union UNION {Greedy(left) : left \in {{y \in open : y.i # p.i /\ y.j # p.j}}} :
                   p \in {CHOOSE x \in open : \A y \in open \ {x} : Before(x, y)}}

\* The pairs that a rule may take, of elements that the rules before it have left.
Open(base, cur, taken, rule) ==
    {[i |-> x[1], j |-> x[2], by |-> rule, iou |-> boxIoU(base[x[1]].b, cur[x[2]].b),
      changed |-> {f \in COMPARED_FIELDS : base[x[1]][f] # cur[x[2]][f]}] :
        x \in {y \in (DOMAIN base \ {p.i : p \in taken}) \X (DOMAIN cur \ {p.j : p \in taken}) :
                 base[y[1]].window = cur[y[2]].window /\ SameBy(rule, base[y[1]], cur[y[2]])}}
RECURSIVE PairsBy(_, _, _, _)
PairsBy(base, cur, taken, rules) ==
    IF rules = <<>> THEN taken
    ELSE UNION {PairsBy(base, cur, more, Tail(rules)) :
                   more \in {taken \union Greedy(open) : open \in {Open(base, cur, taken, rules[1])}}}

Summed(matched) == LET Worth(p) == <<p.iou[1], p.iou[2] * (IF p.changed # {} THEN 2 ELSE 1)>>
                   IN  FoldSet(LAMBDA p, s : Plus(Worth(p), s), Zero, matched)
Differences(base, cur, matched) ==
    LET missing == DOMAIN base \ {p.i : p \in matched}
        extra   == DOMAIN cur \ {p.j : p \in matched}
        size    == Cardinality(matched) + Cardinality(missing) + Cardinality(extra)
    IN  [similarity |-> IF size = 0 THEN One ELSE <<Summed(matched)[1], Summed(matched)[2] * size>>,
         matched |-> matched, missing |-> missing, extra |-> extra,
         moved   |-> {p \in matched : Above(<<9, 10>>, p.iou)},
         changed |-> {p \in matched : p.changed # {}}]
diffLayouts(baseline, current) ==
    Only(UNION {{Differences(x[1], x[2], matched) : matched \in {PairsBy(x[1], x[2], {}, RULES)}} :
                   x \in {<<flattenLayout(baseline), flattenLayout(current)>>}})

\* --------------------------------------------------------------- counts
isContent(n) == n.text # None \/ n.desc # None \/ n.type = "Image"

\* Elements, content, clickable and text counts of one window, or of the whole layout.
CountsOf(nodes) == [elements  |-> Cardinality(nodes), content |-> Cardinality({n \in nodes : isContent(n[2])}),
                    clickable |-> Cardinality({n \in nodes : n[2].click}),
                    text      |-> Cardinality({n \in nodes : n[2].text # None})]
summarizeLayout(tree) ==
    LET flat == flattenLayout(tree)
        all  == {<<i, flat[i]>> : i \in DOMAIN flat}
    IN  [windows |-> [w \in {n[2].window : n \in all} |-> CountsOf({n \in all : n[2].window = w})],
         total   |-> CountsOf(all)]
=============================================================================
