-------------------------------- MODULE XPath --------------------------------
(***************************************************************************)
(* The XPath subset of `--selector xpath=...` (hdc/xpath.ts): a recursive- *)
(* descent parser over tokens, and the evaluation over the pruned tree.  A  *)
(* chain of `or` (of `and`) nests to the right here, to the left there.    *)
(*                                                                         *)
(* A token is [t, v], its kind and its spelling; numerals are n.  A node   *)
(* is its path from the document, which stands above the tree's root.      *)
(* Text never reads as a number: its number is NaN.                        *)
(***************************************************************************)
EXTENDS Selector

Cmp(op, a, b)  == [k |-> "cmp", op |-> op, a |-> a, b |-> b]
Attr(key)      == [k |-> "attr", key |-> key]
Str(v)         == [k |-> "str", v |-> v]
Num(n)         == [k |-> "num", n |-> n]
Fn(name, args) == [k |-> "fn", name |-> name, args |-> args]
Step(axis, name, predicates) == [axis |-> axis, name |-> name, predicates |-> predicates]
\* start: <<>> for the document, or <<a path, its predicates>> for a group.
Path(start, steps) == [start |-> start, steps |-> steps]

FN_ARITY == ("contains" :> 2) @@ ("not" :> 1) @@ ("position" :> 0) @@ ("last" :> 0)
XKeys    == {"text", "desc", "id", "key", "type", "clickable", "visible", "focused"}

\* ------------------------------------------------------------------ parser
\* What a rule of the grammar reads from a position: nothing, or a tree and the next position.
Tok(s, at) == IF at \in DOMAIN s THEN s[at] ELSE [t |-> "eof", v |-> "eof"]
Is(s, at, t) == Tok(s, at).t = t
IsName(s, at, v) == Is(s, at, "name") /\ Tok(s, at).v = v
Refused == [ok |-> FALSE]
Parsed(e, at) == [ok |-> TRUE, e |-> e, at |-> at]
Closed(s, r, t) == IF r.ok /\ Is(s, r.at, t) THEN Parsed(r.e, r.at + 1) ELSE Refused

RULES_OF == {"path", "steps", "predicates", "or", "and", "cmp", "primary", "args"}

parser(s) ==
    LET p[r \in RULES_OF, at \in Nat] ==
          \* One `rule`, or more of them with the name of r between.
          LET Chain(rule) ==
                LET a    == p[rule, at]
                    more == p[r, a.at + 1]
                IN  IF ~a.ok \/ ~IsName(s, a.at, r) THEN a
                    ELSE IF more.ok THEN Parsed([k |-> r, a |-> a.e, b |-> more.e], more.at) ELSE Refused
              Then(step, i) ==
                LET more == p["steps", i]
                IN  IF more.ok THEN Parsed(<<step>> \o more.e, more.at) ELSE Refused
              deep  == Is(s, at, "//")
              t     == Tok(s, at)
              t2    == Tok(s, at + 1)
          IN CASE r = "path" /\ t.t = "(" ->
                    LET g  == Closed(s, p["path", at + 1], ")")
                        ps == p["predicates", g.at]
                        st == p["steps", ps.at]
                    IN  IF g.ok /\ ps.ok /\ st.ok THEN Parsed(Path(<<g.e, ps.e>>, st.e), st.at) ELSE Refused
               [] r = "path" /\ t.t # "(" ->
                    LET st == p["steps", at]
                    IN  IF t.t \in {"/", "//"} /\ st.ok THEN Parsed(Path(<<>>, st.e), st.at) ELSE Refused
               [] r = "steps" /\ t.t \notin {"/", "//"} -> Parsed(<<>>, at)
               [] r = "steps" /\ t.t \in {"/", "//"} ->
                    CASE t2.t = "." -> Then(Step(IF deep THEN "descendant-or-self" ELSE "self", "*", <<>>), at + 2)
                      [] t2.t = ".." /\ ~deep -> Then(Step("parent", "*", <<>>), at + 2)
                      [] t2.t \in {"*", "name"} /\ ~Is(s, at + 2, "(") ->
                            LET ps == p["predicates", at + 2]
                            IN  IF ps.ok THEN Then(Step(IF deep THEN "descendant" ELSE "child", t2.v, ps.e), ps.at)
                                ELSE Refused
                      [] OTHER -> Refused
               [] r = "predicates" ->
                    LET e    == Closed(s, p["or", at + 1], "]")
                        more == p["predicates", e.at]
                    IN  IF t.t # "[" THEN Parsed(<<>>, at)
                        ELSE IF e.ok /\ more.ok THEN Parsed(<<e.e>> \o more.e, more.at) ELSE Refused
               [] r = "or"  -> Chain("and")
               [] r = "and" -> Chain("cmp")
               [] r = "cmp" ->
                    LET a == p["primary", at]
                        b == p["primary", a.at + 1]
                    IN  IF ~a.ok \/ ~Is(s, a.at, "op") THEN a
                        ELSE IF b.ok THEN Parsed(Cmp(Tok(s, a.at).v, a.e, b.e), b.at) ELSE Refused
               [] r = "args" ->
                    LET a    == p["or", at]
                        more == p["args", a.at + 1]
                    IN  IF ~a.ok \/ ~Is(s, a.at, ",") THEN (IF a.ok THEN Parsed(<<a.e>>, a.at) ELSE a)
                        ELSE IF more.ok THEN Parsed(<<a.e>> \o more.e, more.at) ELSE Refused
               [] r = "primary" ->
                    CASE t.t = "("   -> Closed(s, p["or", at + 1], ")")
                      [] t.t = "@"   -> IF t2.t = "name" /\ t2.v \in XKeys THEN Parsed(Attr(t2.v), at + 2) ELSE Refused
                      [] t.t = "str" -> Parsed(Str(t.v), at + 1)
                      [] t.t = "num" -> Parsed(Num(t.n), at + 1)
                      [] t.t = "name" /\ t2.t = "(" ->
                            LET args == IF Is(s, at + 2, ")") THEN Parsed(<<>>, at + 3)
                                        ELSE Closed(s, p["args", at + 2], ")")
                            IN  CASE ~args.ok -> Refused
                                  [] args.ok /\ t.v = "text" ->
                                        IF args.e = <<>> THEN Parsed(Attr("text"), args.at) ELSE Refused
                                  [] OTHER -> IF t.v \in DOMAIN FN_ARITY /\ Len(args.e) = FN_ARITY[t.v]
                                              THEN Parsed(Fn(t.v, args.e), args.at) ELSE Refused
                      [] OTHER -> Refused
    IN p

parseXPath(s) == LET r == parser(s)["path", 1]
                 IN  IF r.ok /\ Is(s, r.at, "eof") THEN r ELSE Refused

\* -------------------------------------------------------------- evaluation
Null     == [t |-> "null"]
StrV(v)  == [t |-> "str", v |-> v]
NumV(n)  == [t |-> "num", n |-> n]
BoolV(b) == [t |-> "bool", b |-> b]

toBool(v) == CASE v.t = "null" -> FALSE
               [] v.t = "str"  -> v.v # None
               [] v.t = "num"  -> v.n # 0
               [] v.t = "bool" -> v.b

\* A comparison with a missing attribute never holds; text is no number.
Equal(a, b) == IF "bool" \in {a.t, b.t} THEN toBool(a) = toBool(b)
               ELSE IF a.t = "num" /\ b.t = "num" THEN a.n = b.n
               ELSE IF a.t = "str" /\ b.t = "str" THEN a.v = b.v
               ELSE FALSE
Number(v) == IF v.t = "bool" THEN (IF v.b THEN 1 ELSE 0) ELSE v.n
compare(op, a, b) ==
    IF "null" \in {a.t, b.t} THEN FALSE
    ELSE IF op = "=" THEN Equal(a, b)
    ELSE IF op = "!=" THEN ~Equal(a, b)
    ELSE IF "str" \in {a.t, b.t} THEN FALSE
    ELSE IF op = "<" THEN Number(a) < Number(b)
    ELSE IF op = "<=" THEN Number(a) <= Number(b)
    ELSE IF op = ">" THEN Number(a) > Number(b)
    ELSE Number(a) >= Number(b)

Document(tree) == [BareNode EXCEPT !.kids = <<tree>>]
RECURSIVE PathsOf(_, _)
PathsOf(n, path) == <<path>> \o FlattenSeq([i \in DOMAIN n.kids |-> PathsOf(n.kids[i], Append(path, i))])
elementName(n) == IF n.type = None THEN "node" ELSE n.type

\* Document order without repetitions.
inDocumentOrder(doc, S) == SelectSeq(PathsOf(doc, <<>>), LAMBDA p : p \in S)

RECURSIVE evalExpr(_, _, _, _, _)
evalExpr(e, doc, node, position, size) ==
    LET Ev(x) == evalExpr(x, doc, node, position, size)
        n     == NodeAt(doc, node)
        v     == selectorAttribute(n, e.key)
        Text(x) == CASE x.t = "null" -> None [] x.t = "str" -> x.v [] x.t = "bool" -> Bool(x.b)
    IN  CASE e.k = "or"   -> BoolV(toBool(Ev(e.a)) \/ toBool(Ev(e.b)))
          [] e.k = "and"  -> BoolV(toBool(Ev(e.a)) /\ toBool(Ev(e.b)))
          [] e.k = "cmp"  -> BoolV(compare(e.op, Ev(e.a), Ev(e.b)))
          [] e.k = "attr" -> IF ~hasOwnFields(n) \/ v = None THEN Null ELSE StrV(v)
          [] e.k = "str"  -> StrV(e.v)
          [] e.k = "num"  -> NumV(e.n)
          [] e.k = "fn" /\ e.name = "contains" -> BoolV(Includes(Text(Ev(e.args[1])), Text(Ev(e.args[2]))))
          [] e.k = "fn" /\ e.name = "not"      -> BoolV(~toBool(Ev(e.args[1])))
          [] e.k = "fn" /\ e.name = "position" -> NumV(position)
          [] e.k = "fn" /\ e.name = "last"     -> NumV(size)

\* With this, positions count from zero.
RECURSIVE applyPredicates_FromZero(_, _, _)
applyPredicates_FromZero(doc, nodes, predicates) ==
    LET Holds(i) == LET v == evalExpr(predicates[1], doc, nodes[i], i - 1, Len(nodes))
                    IN  IF v.t = "num" THEN v.n = i - 1 ELSE toBool(v)
        kept == Sorted({i \in DOMAIN nodes : Holds(i)})
    IN  IF predicates = <<>> THEN nodes
        ELSE applyPredicates_FromZero(doc, [k \in DOMAIN kept |-> nodes[kept[k]]], Tail(predicates))

\* Each predicate counts among what the ones before it have kept.
RECURSIVE applyPredicates(_, _, _)
applyPredicates(doc, nodes, predicates) ==
    LET Holds(i) == LET v == evalExpr(predicates[1], doc, nodes[i], i, Len(nodes))
                    IN  IF v.t = "num" THEN v.n = i ELSE toBool(v)
        kept == Sorted({i \in DOMAIN nodes : Holds(i)})
    IN  IF predicates = <<>> THEN nodes
        ELSE applyPredicates(doc, [k \in DOMAIN kept |-> nodes[kept[k]]], Tail(predicates))

descendantsOrSelf(doc, contexts) ==
    {p \in ToSet(PathsOf(doc, <<>>)) : \E c \in ToSet(contexts) : IsPrefix(c, p)}

\* `//name` is `/descendant-or-self::node()/name`: predicates count per parent.
evalStep(doc, contexts, step) ==
    LET parents == IF step.axis = "descendant" THEN descendantsOrSelf(doc, contexts) ELSE ToSet(contexts)
        kids    == [p \in parents |-> [i \in DOMAIN NodeAt(doc, p).kids |-> Append(p, i)]]
        named   == [p \in parents |-> SelectSeq(kids[p],
                        LAMBDA c : step.name = "*" \/ elementName(NodeAt(doc, c)) = step.name)]
    IN  CASE step.axis = "self"   -> contexts
          [] step.axis = "parent" -> inDocumentOrder(doc, {Front(c) : c \in ToSet(contexts) \ {<<>>}})
          [] step.axis = "descendant-or-self" -> inDocumentOrder(doc, descendantsOrSelf(doc, contexts))
          [] OTHER -> inDocumentOrder(doc, UNION {ToSet(applyPredicates(doc, named[p], step.predicates)) : p \in parents})

RECURSIVE evalPath(_, _)
evalPath(doc, x) == FoldLeft(LAMBDA cur, step : evalStep(doc, cur, step),
                             IF x.start = <<>> THEN <<(<<>>)>>
                             ELSE applyPredicates(doc, evalPath(doc, x.start[1]), x.start[2]),
                             x.steps)

\* The paths of the matches, below the document; bare containers are never returned.
evaluateXPath(tree, x) ==
    SelectSeq(evalPath(Document(tree), x), LAMBDA p : p # <<>> /\ hasOwnFields(NodeAt(Document(tree), p)))
=============================================================================
