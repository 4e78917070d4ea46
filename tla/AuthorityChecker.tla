-------------------------- MODULE AuthorityChecker --------------------------
(***************************************************************************)
(* authority_checker (authority_checker.hpp): whether the keys, the        *)
(* permissions and the delay a transaction comes with are enough for a     *)
(* permission.  An authority is a threshold and a sequence of weighted     *)
(* factors, its accounts first, then its keys, then its waits; a           *)
(* permission level is <<actor, name>>, where the name "" stands for every *)
(* permission of the actor.                                                *)
(*                                                                         *)
(* A checker c holds what it was given (keys, delay), the keys it has      *)
(* used, and the cache of the permissions met in one call of satisfied.    *)
(* db maps the permissions of the chain to records with a field auth.      *)
(***************************************************************************)
EXTENDS Integers, Sequences, SequencesExt, FiniteSets

CONSTANT
  MaxDepth   \* max_authority_depth: how deep permissions may refer to others

DepthAssumption == MaxDepth \in Nat \ {0}

Priority == [account |-> 1, key |-> 2, wait |-> 3]

\* the order of meta_permission_map: heavier factors first, then by kind
Before(fs, i, j) ==
  \/ fs[i].weight > fs[j].weight
  \/ /\ fs[i].weight = fs[j].weight
     /\ \/ Priority[fs[i].kind] > Priority[fs[j].kind]
        \/ Priority[fs[i].kind] = Priority[fs[j].kind] /\ i < j

meta_permissions(auth) ==
  LET at == SetToSortSeq(DOMAIN auth.factors,
                         LAMBDA i, j : Before(auth.factors, i, j))
  IN  [n \in DOMAIN at |-> auth.factors[at[n]]]

permission_status_in_cache(cache, level) ==
  IF level \in DOMAIN cache THEN cache[level]
  ELSE IF <<level[1], "">> \in DOMAIN cache THEN cache[<<level[1], "">>]
  ELSE "none"

\* The body of weight_tally_visitor for a wait and for a key: r.ok says that
\* the weight of the factor counts.
VisitWait(c, f) == [ok |-> c.delay >= f.of, c |-> c]

VisitKey(c, f) ==
  [ok |-> f.of \in c.keys, c |-> [c EXCEPT !.used = @ \union ({f.of} \intersect c.keys)]]

\* A permission whose status is known: one being evaluated does not count.
FromCache(status, c) == [ok |-> status = "satisfied", c |-> c]

\* what the visitor remembers once a permission was evaluated
Remember(level, r) ==
  [r EXCEPT !.c.cache[level] = IF r.ok THEN "satisfied" ELSE "unsatisfied"]

\* KeyReverter: an authority that is not satisfied has used no keys
KeyReverter(c, r) == IF r.ok THEN r ELSE [r EXCEPT !.c.used = c.used]

RECURSIVE Tally(_, _, _, _, _, _)

VisitPermission(db, c, level, depth) ==
  IF permission_status_in_cache(c.cache, level) # "none"
  THEN FromCache(permission_status_in_cache(c.cache, level), c)
  ELSE IF depth >= MaxDepth \/ level \notin DOMAIN db
  THEN [ok |-> FALSE, c |-> c]
  ELSE Remember(level,
         KeyReverter(c,
           Tally(db, [c EXCEPT !.cache = @ @@ (level :> "being_evaluated")],
                 meta_permissions(db[level].auth), depth + 1, 0,
                 db[level].auth.threshold)))

Visit(db, c, f, depth) ==
  CASE f.kind = "wait" -> VisitWait(c, f)
    [] f.kind = "key" -> VisitKey(c, f)
    [] f.kind = "account" -> VisitPermission(db, c, f.of, depth)

\* the total weight after a factor was visited
Weighed(r, f, total) == IF r.ok THEN total + f.weight ELSE total

\* After the first factor: stop when the threshold is reached.
Enough(db, r, fs, depth, total, threshold) ==
  IF total >= threshold
  THEN [ok |-> TRUE, c |-> r.c]
  ELSE Tally(db, r.c, Tail(fs), depth, total, threshold)

Counted(db, r, fs, depth, total, threshold) ==
  Enough(db, r, fs, depth, Weighed(r, Head(fs), total), threshold)

\* The loop of satisfied over the factors, from the heaviest on.
Tally(db, c, fs, depth, total, threshold) ==
  IF fs = <<>>
  THEN [ok |-> FALSE, c |-> c]
  ELSE Counted(db, Visit(db, c, Head(fs), depth), fs, depth, total, threshold)

\* initialize_permission_cache
NewCache(provided) == [p \in provided |-> "satisfied"]

Checker(keys, provided, delay) ==
  [keys |-> keys, delay |-> delay, used |-> {}, cache |-> NewCache(provided)]

satisfied(db, c, level) == VisitPermission(db, c, level, 0)

-----------------------------------------------------------------------------
(* The reference: the least set of permissions closed under the rule that  *)
(* an authority is satisfied when the weights of its satisfied factors     *)
(* reach its threshold.                                                    *)

Holds(f, S, keys, provided, delay) ==
  CASE f.kind = "wait" -> delay >= f.of
    [] f.kind = "key" -> f.of \in keys
    [] f.kind = "account" -> f.of \in S \/ f.of \in provided \/ <<f.of[1], "">> \in provided

WeightOf(auth, S, keys, provided, delay) ==
  FoldSeq(LAMBDA f, sum : sum + (IF Holds(f, S, keys, provided, delay) THEN f.weight ELSE 0),
          0, auth.factors)

RECURSIVE Closure(_, _, _, _, _)
Closure(db, S, keys, provided, delay) ==
  LET T == {l \in DOMAIN db :
              WeightOf(db[l].auth, S, keys, provided, delay) >= db[l].auth.threshold}
  IN  IF T = S THEN S ELSE Closure(db, T, keys, provided, delay)

\* the permissions that are satisfied, whatever order they are looked at in
SatisfiedSet(db, keys, provided, delay) ==
  Closure(db, {}, keys, provided, delay) \union provided
  \union {l \in DOMAIN db : <<l[1], "">> \in provided}

\* the permissions n references away from those of S
RECURSIVE Referred(_, _, _)
Referred(db, S, n) ==
  IF n = 0 THEN S
  ELSE Referred(db, {l \in DOMAIN db :
                       \E k \in S : \E f \in Range(db[k].auth.factors) :
                         f.kind = "account" /\ f.of = l}, n - 1)

\* No chain of references from level is as long as the depth limit: none is
\* a cycle.
Shallow(db, level) == Referred(db, {level} \intersect DOMAIN db, MaxDepth) = {}
=============================================================================
