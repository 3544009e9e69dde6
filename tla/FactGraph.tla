----------------------------- MODULE FactGraph -----------------------------
(***************************************************************************)
(* The dependency graph (internal/graph, handler/graph.go) and the order   *)
(* of a reconcile run (internal/reconcile/order.go): what the stored facts *)
(* refer to, and how information flows between components.                 *)
(*                                                                         *)
(* A fact is [ref, info, origin, name, targets]: its kind and id, the      *)
(* information it carries, who wrote it, the name a domain is found by,    *)
(* and per field the ids or names it refers to.                            *)
(***************************************************************************)
EXTENDS Naturals, Sequences, FiniteSets

NoInfo == ""

-----------------------------------------------------------------------------
(* The registry of fact kinds                                              *)

(* Per kind the fields that refer to other facts, and to which kind. *)
NoReferences == [f \in {} |-> ""]
References ==
  [service    |-> [appId |-> "app", rootDomain |-> "domain", fragmentIds |-> "fragment"],
   domain     |-> [credentialId |-> "credential"],
   credential |-> NoReferences, fragment |-> NoReferences, variable |-> NoReferences,
   port       |-> NoReferences, app      |-> NoReferences, compose  |-> NoReferences]
Kinds == DOMAIN References

(* Applications and compose projects carry no information. *)
InfoOf(kind) == IF kind \in {"app", "compose"} THEN NoInfo ELSE kind

Fact(kind, id, origin, name, targets) ==
  [ref |-> <<kind, id>>, info |-> InfoOf(kind), origin |-> origin, name |-> name,
   targets |-> targets]

-----------------------------------------------------------------------------
(* References between facts                                                *)

Refs(facts) == {f.ref : f \in facts}

(* A target is an id; a domain that has no such id is found by its name.   *)
(* Of several domains of one name the map keeps one: which, is left open.  *)
Resolve(facts, kind, target) ==
  IF <<kind, target>> \in Refs(facts) THEN {<<kind, target>>}
  ELSE IF kind = "domain" THEN {f.ref : f \in {g \in facts : g.ref[1] = "domain" /\ g.name = target}}
  ELSE {}

(* buildRefEdges: references that lead nowhere have no edge. *)
RefEdges(facts) ==
  UNION {
    LET to == References[f.ref[1]]
    IN UNION {{[from |-> f.ref, to |-> r, field |-> k] :
                 r \in UNION {Resolve(facts, to[k], t) : t \in f.targets[k]}} :
              k \in DOMAIN to} :
    f \in facts}

-----------------------------------------------------------------------------
(* Information between components.  A descriptor is [id, consumes,         *)
(* produces].                                                              *)

(* Instances: the facts the producer itself is the origin of. *)
InstancesOf(facts, info, origin) == {f.ref : f \in {g \in facts : g.info = info /\ g.origin = origin}}

(* buildEdges: producers times consumers, without loops. *)
Edges(desc, facts) ==
  UNION {{[from |-> d[1].id, to |-> d[2].id, info |-> i,
           instances |-> InstancesOf(facts, i, d[1].id)] :
            i \in (d[1].produces \cap d[2].consumes) \ {NoInfo}} :
         d \in {e \in desc \X desc : e[1].id # e[2].id}}

Arrows(desc) == {<<e.from, e.to>> : e \in Edges(desc, {})}

(* Wrong: producers that are not asked for are waited for, too.            *)
OrderCountsOutsiders(ids, arrows, rank) ==
  LET Least(S) == CHOOSE c \in S : \A d \in S : rank[c] <= rank[d]
      order[S \in SUBSET ids] ==
        IF S = {} THEN <<>>
        ELSE LET ready == {c \in S : \A a \in arrows : a[2] = c => a[1] \in ids \ S}
                 rest[R \in SUBSET S] == IF R = {} THEN <<>>
                                         ELSE <<Least(R)>> \o rest[R \ {Least(R)}]
             IN IF ready = {} THEN rest[S]
                ELSE <<Least(ready)>> \o order[S \ {Least(ready)}]
  IN order[ids]

(* Order (Kahn): always the least component whose producers among those    *)
(* asked for have been; what is left, on a cycle or behind one, follows in *)
(* the order of the ids.  rank is the order of the ids.                    *)
Order(ids, arrows, rank) ==
  LET Least(S) == CHOOSE c \in S : \A d \in S : rank[c] <= rank[d]
      order[S \in SUBSET ids] ==
        IF S = {} THEN <<>>
        ELSE LET ready == {c \in S : \A p \in S : p = c \/ <<p, c>> \notin arrows}
                 rest[R \in SUBSET S] == IF R = {} THEN <<>>
                                         ELSE <<Least(R)>> \o rest[R \ {Least(R)}]
             IN IF ready = {} THEN rest[S]
                ELSE <<Least(ready)>> \o order[S \ {Least(ready)}]
  IN order[ids]
=============================================================================
