------------------------------ MODULE Selector ------------------------------
(***************************************************************************)
(* `--selector` expressions (hdc/selector.ts): clauses that must all hold  *)
(* on an element, with an index among the matches; the selector that       *)
(* `record` writes for an element; and the text a selector is written as   *)
(* and read back from.                                                     *)
(*                                                                         *)
(* A node of a tree is named by its place in paint order (`NodesOf`).  An  *)
(* absent index is <<>>.  Of the operators, "*=" stands for every partial  *)
(* match: which text is part of which is TextParts.                        *)
(***************************************************************************)
EXTENDS LayoutTree, FiniteSetsExt

CONSTANT TextParts     \* pairs <<text, part of it>>

Includes(v, part) == v = part \/ <<v, part>> \in TextParts

Bool(v) == IF v THEN "true" ELSE "false"

\* The value of an attribute; None when the element has none.
selectorAttribute(n, key) ==
    CASE key = "key"       -> IF n.key # None THEN n.key ELSE n.id
      [] key = "clickable" -> Bool(n.click)
      [] key = "focused"   -> Bool(n.focus)
      [] key = "visible"   -> Bool(~n.hidden /\ ~n.covered)
      [] OTHER             -> n[key]

clauseMatches(n, c) == LET v == selectorAttribute(n, c.key)
                       IN  v # None /\ IF c.op = "=" THEN v = c.value ELSE Includes(v, c.value)

\* indexLayout and allIndexed: the tree's nodes by an explicit stack.
allIndexed(tree) ==
    LET unstack[stack \in Seq([path: TreePaths, window: STRING, windowId: Nat])] ==
            IF stack = <<>> THEN <<>>
            ELSE Only({<<[flat |-> flatLayoutNode(x.n, x.window, x.windowId), empty |-> ~hasOwnFields(x.n)]>>
                           \o unstack[Front(stack) \o Reverse([i \in DOMAIN x.n.kids |->
                                          [path |-> Append(x.path, i), window |-> x.window, windowId |-> x.windowId]])]
                       : x \in {[n |-> n, path |-> top.path, window |-> windowOf(n, top.window), windowId |-> windowIdOf(n, top.windowId)]
                                    : top \in {Last(stack)}, n \in {NodeAt(tree, Last(stack).path)}}})
    IN  unstack[<<[path |-> <<>>, window |-> None, windowId |-> 0]>>]

FlatOf(indexed) == [i \in DOMAIN indexed |-> indexed[i].flat]
NodesOf(tree) == FlatOf(SelectSeq(allIndexed(tree), LAMBDA e : ~e.empty))

\* The places of the elements that satisfy every clause.
Matches(nodes, clauses) == {i \in DOMAIN nodes : \A k \in DOMAIN clauses : clauseMatches(nodes[i], clauses[k])}

Sorted(S) == SetToSortSeq(S, <)
Those(nodes, places) == LET order == Sorted(places) IN [k \in DOMAIN order |-> nodes[order[k]]]
matchSelector(tree, clauses) == Only({Those(nodes, Matches(nodes, clauses)) : nodes \in {NodesOf(tree)}})

\* ------------------------------------------------ the selector of an element
IDENTITY_FIELDS == {"type", "id", "key", "text", "desc"}
STABLE_KEYS == <<"id", "key", "text", "desc">>

Dist(n, c) == LET d == Center(n.b) IN (d[1] - c[1]) * (d[1] - c[1]) + (d[2] - c[2]) * (d[2] - c[2])
Nearer(m, n, c) == m.b # NoBox /\ (n.b = NoBox \/ Dist(m, c) < Dist(n, c))

\* The element among the nodes: the same identity, the nearest centre, the first of equals.
locateRecorded(nodes, element) ==
    LET same == {i \in DOMAIN nodes :
                    /\ \A f \in IDENTITY_FIELDS : element[f] # None => nodes[i][f] = element[f]
                    /\ element.windowId # 0 => nodes[i].windowId = element.windowId}
        c    == Center(element.b)
        best == IF Cardinality(same) <= 1 \/ c = <<>> THEN same
                ELSE {i \in same : \A j \in same : ~Nearer(nodes[j], nodes[i], c)}
    IN  IF best = {} THEN {} ELSE {Min(best)}

NoSelector == [clauses |-> <<>>, index |-> <<>>]

\* With this, a selector that several elements match gets no index.
selectorFor_NoIndex(tree, element) ==
    LET nodes   == NodesOf(tree)
        located == locateRecorded(nodes, element)
        Clause(key) == [key |-> key, op |-> "=", value |-> selectorAttribute(nodes[Min(located)], key)]
        keys    == SelectSeq(<<"type">> \o STABLE_KEYS, LAMBDA k : selectorAttribute(nodes[Min(located)], k) # None)
    IN  IF located = {} \/ keys = <<>> THEN NoSelector
        ELSE [clauses |-> [k \in DOMAIN keys |-> Clause(keys[k])], index |-> <<>>]
\* The first clause that tells the target apart, else all of them, else a position among their matches.
exactOrIndexed(nodes, target, typed, stable) ==
    LET tries == [k \in DOMAIN stable |-> typed \o <<stable[k]>>]
                     \o (IF Len(stable) > 1 THEN <<typed \o stable>> ELSE <<>>)
        exact == {k \in DOMAIN tries : Matches(nodes, tries[k]) = {target}}
    IN  CASE exact # {} -> [clauses |-> tries[Min(exact)], index |-> <<>>]
          [] exact = {} /\ typed \o stable = <<>> -> NoSelector
          [] OTHER -> [clauses |-> typed \o stable,
                       index |-> <<Cardinality({i \in Matches(nodes, typed \o stable) : i < target})>>]
selectorOfNode(nodes, target) ==
    LET Clauses(keys) == [k \in DOMAIN keys |-> [key |-> keys[k], op |-> "=", value |-> selectorAttribute(nodes[target], keys[k])]]
        Usable(key) == selectorAttribute(nodes[target], key) # None /\ (key = "key" => nodes[target].key # None)
    IN  Only({exactOrIndexed(nodes, target, Clauses(x[1]), Clauses(x[2])) :
                 x \in {<<SelectSeq(<<"type">>, Usable), SelectSeq(STABLE_KEYS, Usable)>>}})
selectorFor(tree, element) ==
    Only({IF x.at = {} THEN NoSelector ELSE selectorOfNode(x.nodes, Min(x.at)) :
             x \in {[nodes |-> nodes, at |-> locateRecorded(nodes, element)] : nodes \in {NodesOf(tree)}}})

\* --------------------------------------------------- the text of a selector
\* Text is a sequence of characters; a key, an operator and an index count as one each.
Keys      == {"text", "id"}
Operators == {"=", "*="}
Quotes    == {"q"}                  \* a quotation mark
Indexes   == ("0" :> 0) @@ ("1" :> 1) @@ ("last" :> -1)
IndexText(i) == CHOOSE t \in DOMAIN Indexes : Indexes[t] = i
Space == " "

ToBeQuoted(v) == \/ v = <<>>
                 \/ ToSet(v) \intersect ({",", "[", "]", "bs"} \union Quotes) # {}
                 \/ v[1] = Space \/ Last(v) = Space

Escaped(v) == FlattenSeq([i \in DOMAIN v |-> IF v[i] \in {"bs", "q"} THEN <<"bs", v[i]>> ELSE <<v[i]>>])
\* With this, a value that ends in a space, or begins with one, is written bare.
formatValue_EdgeSpaces(v) ==
    IF v = <<>> \/ ToSet(v) \intersect ({",", "[", "]", "bs"} \union Quotes) # {}
    THEN <<"q">> \o Escaped(v) \o <<"q">> ELSE v
formatValue(v) == IF ToBeQuoted(v) THEN <<"q">> \o Escaped(v) \o <<"q">> ELSE v

formatSelector(clauses, index) ==
    LET One(k) == (IF k = 1 THEN <<>> ELSE <<",">>)
                     \o <<clauses[k].key, clauses[k].op>> \o formatValue(clauses[k].value)
    IN  FlattenSeq([k \in DOMAIN clauses |-> One(k)])
            \o (IF index = <<>> THEN <<>> ELSE <<"[", IndexText(index[1]), "]">>)

\* The scanner: `at` is the position of the next character.
Peek(s, at) == IF at \in DOMAIN s THEN s[at] ELSE "eof"
skipWs(s, from) == LET skip[at \in Nat] == IF Peek(s, at) = Space THEN skip[at + 1] ELSE at IN skip[from]

Fails == [ok |-> FALSE]
Value(v, at) == [ok |-> TRUE, value |-> v, at |-> at]
After_(v, rest) == IF rest.ok THEN [rest EXCEPT !.value = <<v>> \o @] ELSE Fails

parseQuoted(s, from) ==
    LET parse[at \in Nat] ==
            CASE Peek(s, at) = "eof" -> Fails
              [] Peek(s, at) = "q"   -> Value(<<>>, at + 1)
              [] Peek(s, at) = "bs"  -> IF Peek(s, at + 1) = "eof" THEN Fails ELSE After_(s[at + 1], parse[at + 2])
              [] OTHER               -> After_(s[at], parse[at + 1])
    IN  parse[from]

\* Inner spaces belong to a bare value, spaces at its end do not.
parseBare(s, from) ==
    LET ends == {"eof", ",", "["} \union Quotes
        parse[at \in Nat] ==
            CASE Peek(s, at) \in ends  -> Value(<<>>, at)
              [] Peek(s, at) = Space   -> IF Peek(s, skipWs(s, at)) \in ends THEN Value(<<>>, at)
                                          ELSE After_(Space, parse[at + 1])
              [] Peek(s, at) = "bs"    -> IF Peek(s, at + 1) = "eof" THEN Fails ELSE After_(s[at + 1], parse[at + 2])
              [] OTHER                 -> After_(s[at], parse[at + 1])
    IN  parse[from]

\* A clause, and the spaces after it.
parseClause(s, from) ==
    LET k == skipWs(s, from)
        o == skipWs(s, k + 1)
        v == skipWs(s, o + 1)
        r == IF Peek(s, v) \in Quotes THEN parseQuoted(s, v + 1) ELSE parseBare(s, v)
    IN  IF Peek(s, k) \notin Keys \/ Peek(s, o) \notin Operators \/ Peek(s, v) \in {"eof", ",", "["} \/ ~r.ok
        THEN Fails
        ELSE Value([key |-> s[k], op |-> s[o], value |-> r.value], skipWs(s, r.at))

\* parseDsl: its loop over clauses, its check for a key that appears twice, its index.
parseClauses(s, from) ==
    LET parse[at \in Nat] ==
            Only({IF ~c.ok THEN Fails
                  ELSE IF Peek(s, c.at) = "," THEN After_(c.value, parse[c.at + 1])
                  ELSE Value(<<c.value>>, c.at)
                  : c \in {parseClause(s, at)}})
    IN  parse[from]

parseIndex(s, at) ==
    LET t   == skipWs(s, at + 1)
        end == skipWs(s, t + 1)
    IN  IF Peek(s, at) # "[" THEN Value(<<>>, at)
        ELSE IF Peek(s, t) \in DOMAIN Indexes /\ Peek(s, end) = "]"
             THEN Value(<<Indexes[s[t]]>>, skipWs(s, end + 1)) ELSE Fails

selectorOf(s, cs, ix) ==
    IF \/ \E i, j \in DOMAIN cs.value : i < j /\ cs.value[i].key = cs.value[j].key
       \/ ~ix.ok
       \/ Peek(s, ix.at) # "eof"
    THEN Fails
    ELSE [ok |-> TRUE, clauses |-> cs.value, index |-> ix.value]
parseDsl(s) == Only({IF cs.ok THEN selectorOf(s, cs, parseIndex(s, cs.at)) ELSE Fails : cs \in {parseClauses(s, 1)}})
=============================================================================
