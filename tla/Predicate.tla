------------------------------ MODULE Predicate ------------------------------
(***************************************************************************)
(* The evaluator of collection predicates on one subject.  A predicate is  *)
(* a tree of JSON objects; a leaf holds terms, each of which matches, does *)
(* not match or cannot be evaluated, and is reduced to the set of these    *)
(* outcomes.  Go visits the keys of an object in any order, so a tree has  *)
(* a set of possible results.                                              *)
(***************************************************************************)
EXTENDS Naturals, FiniteSets, Sequences

CONSTANTS
    MaxNodes,   \* bound: nodes of the tree
    MaxKids     \* bound: children of an array

ASSUME PredicateAssumption == MaxNodes \in Nat \ {0} /\ MaxKids \in Nat

Results == {"match", "mismatch", "error"}
Node == [op : {"terms", "$not", "$and", "$or"}, terms : SUBSET Results, kids : Seq(Nat)]
Terms(outcomes) == [op |-> "terms", terms |-> outcomes, kids |-> <<>>]
Operator(op, kids) == [op |-> op, terms |-> {}, kids |-> kids]

VARIABLE tree   \* the predicate being written: children first, the root last
predicateVars == <<tree>>

PredicateTypeOK ==
    /\ tree \in Seq(Node) /\ Len(tree) \in 1 .. MaxNodes
    /\ \A i \in 1 .. Len(tree) :
         /\ \A k \in 1 .. Len(tree[i].kids) : tree[i].kids[k] \in 1 .. i - 1
         /\ tree[i].op = "$not" => Len(tree[i].kids) = 1

PredicateInit == \E t \in SUBSET Results : tree = <<Terms(t)>>

(* evalNode's loop, and evalOperator's: the first term that does not match *)
(* or that fails decides, and any may come first.  No term matches all.    *)
EvalTerms(terms) ==
    IF terms \subseteq {"match"} THEN {"match"} ELSE terms \ {"match"}

Opposite(x) == IF x = "match" THEN "mismatch" ELSE IF x = "mismatch" THEN "match" ELSE x
EvalNot(r) == {Opposite(x) : x \in r}

(* Arrays are visited in order, up to the first child that decides.  A     *)
(* child is reached if all before it can be passed.                        *)
Reached(results, decides, k) == \A j \in 1 .. k - 1 : ~(results[j] \subseteq decides)
Visit(results, decides, otherwise) ==
    {x \in decides : \E k \in 1 .. Len(results) : x \in results[k] /\ Reached(results, decides, k)}
        \cup {x \in {otherwise} : Reached(results, decides, Len(results) + 1)}

EvalAnd(results) == Visit(results, {"mismatch", "error"}, "match")

(* A plausible bug: a child that fails is one that does not match. *)
OrGoesOn(results) == Visit(results, {"match"}, "mismatch")

EvalOr(results) == Visit(results, {"match", "error"}, "mismatch")

EvalNode(node, results) ==
    CASE node.op = "terms" -> EvalTerms(node.terms)
      [] node.op = "$not"  -> EvalNot(results[1])
      [] node.op = "$and"  -> EvalAnd(results)
      [] node.op = "$or"   -> EvalOr(results)

Match(t) ==
    LET result[i \in 1 .. Len(t)] ==
            EvalNode(t[i], [k \in 1 .. Len(t[i].kids) |-> result[t[i].kids[k]]])
    IN result[Len(t)]

Write(node) == Len(tree) < MaxNodes /\ tree' = Append(tree, node)
AddTerms == \E t \in SUBSET Results : Write(Terms(t))
Negate == \E k \in 1 .. Len(tree) : Write(Operator("$not", <<k>>))
Combine(op) ==
    \E n \in 0 .. MaxKids : \E kids \in [1 .. n -> 1 .. Len(tree)] : Write(Operator(op, kids))

PredicateNext == AddTerms \/ Negate \/ \E op \in {"$and", "$or"} : Combine(op)

PredicateSpec == PredicateInit /\ [][PredicateNext]_predicateVars

-----------------------------------------------------------------------------

Evaluable(t) == \A i \in 1 .. Len(t) : "error" \notin t[i].terms

(* If every term can be evaluated, the order in which Go visits the keys   *)
(* decides nothing: a subject that is in a collection at one evaluation is *)
(* in it at the next.  Not so with a term that cannot be: one evaluation   *)
(* finds it and returns the error, for which the engine skips the rule as  *)
(* if the subject were not in the collection, and another passes it by and *)
(* returns an answer, under "$not" perhaps a match.  That answer is always *)
(* the same one: no two orders give both.                                  *)
OrderHidesErrorsOnly ==
    /\ Evaluable(tree) => \E answer \in {"match", "mismatch"} : Match(tree) = {answer}
    /\ ~ ({"match", "mismatch"} \subseteq Match(tree))
=============================================================================
