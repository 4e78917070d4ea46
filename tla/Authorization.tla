--------------------------- MODULE Authorization ---------------------------
(***************************************************************************)
(* The permissions of accounts (authorization_manager.cpp) and the native  *)
(* actions that change them (eosio_contract.cpp): newaccount, updateauth,  *)
(* deleteauth, linkauth, unlinkauth and canceldelay.                       *)
(*                                                                         *)
(* A transaction is checked whole (check_authorization) before its first   *)
(* action is executed; one with a delay is stored when it was checked, and *)
(* executed later, without another check, on what the permissions have     *)
(* become.  A contract that sends an inline action has the permission      *)
(* eosio.code of its account and no keys.                                  *)
(***************************************************************************)
EXTENDS AuthorityChecker

CONSTANTS
  Trxs,             \* transactions, by their ids
  Def,              \* the actions and the delay of each of them
  Inline,           \* actions a contract may send inline, with its account
  Keys,             \* the keys that may sign
  System,           \* the system account, whose actions are native
  MaxDelay,         \* max_transaction_delay
  OnlyLinkToExisting, \* builtin protocol feature only_link_to_existing_permission
  FixLinkauth,      \* builtin protocol feature fix_linkauth_restriction
  Genesis           \* the permissions of the initial accounts

VARIABLES
  perms,     \* permission level -> [parent, auth]
  links,     \* <<account, code, action>> -> name of the required permission
  delayed    \* delayed transactions -> what is left of their delay

vars == <<perms, links, delayed>>

NoName == ""
AnyName == "eosio.any"
Code == "eosio.code"
Reserved == {AnyName, Code}
Native == {"updateauth", "deleteauth", "linkauth", "unlinkauth", "canceldelay"}

Accounts(db) == {l[1] : l \in DOMAIN db}

\* permission_object::satisfies: m is l or below it
RECURSIVE satisfies(_, _, _)
satisfies(db, l, m) ==
  /\ l[1] = m[1]
  /\ \/ l = m
     \/ /\ db[m].parent # NoName
        /\ satisfies(db, l, <<m[1], db[m].parent>>)

\* get_permission throws for a permission that does not exist
Suffices(db, l, m) == l \in DOMAIN db /\ m \in DOMAIN db /\ satisfies(db, l, m)

lookup_linked_permission(ln, account, code, act) ==
  IF <<account, code, act>> \in DOMAIN ln THEN ln[<<account, code, act>>]
  ELSE IF <<account, code, NoName>> \in DOMAIN ln THEN ln[<<account, code, NoName>>]
  ELSE NoName

\* NoName: the action may be authorised by any permission
lookup_minimum_permission(ln, account, code, act) ==
  CASE lookup_linked_permission(ln, account, code, act) = NoName -> "active"
    [] lookup_linked_permission(ln, account, code, act) = AnyName -> NoName
    [] OTHER -> lookup_linked_permission(ln, account, code, act)

-----------------------------------------------------------------------------
(* check_authorization                                                     *)

\* the only declared authorization of a native action
By(a) == a.authorization[1]

check_updateauth_authorization(s, a) ==
  /\ Len(a.authorization) = 1
  /\ By(a)[1] = a.account
  /\ Suffices(s.perms, By(a),
              <<a.account, IF <<a.account, a.permission>> \in DOMAIN s.perms
                           THEN a.permission ELSE a.parent>>)

check_deleteauth_authorization(s, a) ==
  /\ Len(a.authorization) = 1
  /\ By(a)[1] = a.account
  /\ Suffices(s.perms, By(a), <<a.account, a.permission>>)

check_linkauth_authorization(s, a) ==
  /\ Len(a.authorization) = 1
  /\ By(a)[1] = a.account
  /\ (a.code = System \/ ~FixLinkauth) => a.act \notin Native
  /\ LET min == lookup_minimum_permission(s.links, a.account, a.code, a.act)
     IN  min # NoName => Suffices(s.perms, By(a), <<a.account, min>>)

check_unlinkauth_authorization(s, a) ==
  /\ Len(a.authorization) = 1
  /\ By(a)[1] = a.account
  /\ LET linked == lookup_linked_permission(s.links, a.account, a.code, a.act)
     IN  /\ linked # NoName
         /\ linked # AnyName => Suffices(s.perms, By(a), <<a.account, linked>>)

\* the authorizations declared by the actions of a transaction
Declared(t) == UNION {Range(Def[t].actions[i].authorization) : i \in DOMAIN Def[t].actions}

check_canceldelay_authorization(s, a) ==
  /\ Len(a.authorization) = 1
  /\ Suffices(s.perms, By(a), a.canceling_auth)
  /\ a.trx \in DOMAIN s.delayed
  /\ a.canceling_auth \in Declared(a.trx)

\* An action that is not special: each authorization is enough for what the
\* action is linked to.
CheckLinked(s, a) ==
  \A i \in DOMAIN a.authorization :
    LET l == a.authorization[i]
        min == lookup_minimum_permission(s.links, l[1], a.code, a.act)
    IN  min # NoName => Suffices(s.perms, l, <<l[1], min>>)

CheckAction(s, a) ==
  CASE a.type = "updateauth" -> check_updateauth_authorization(s, a)
    [] a.type = "deleteauth" -> check_deleteauth_authorization(s, a)
    [] a.type = "linkauth" -> check_linkauth_authorization(s, a)
    [] a.type = "unlinkauth" -> check_unlinkauth_authorization(s, a)
    [] a.type = "canceldelay" -> check_canceldelay_authorization(s, a)
    [] OTHER -> CheckLinked(s, a)

\* microseconds::maximum()
Forever == 1000000

EffectiveDelay(delay) == IF delay >= MaxDelay THEN Forever ELSE delay

\* canceldelay counts the delay of the transaction it cancels as its own
DelayOf(a, delay) ==
  IF a.type = "canceldelay" /\ Def[a.trx].delay > delay THEN Def[a.trx].delay ELSE delay

\* permissions_to_satisfy: each with the smallest delay of the actions that
\* declare it
ToSatisfy(actions, delay) ==
  [l \in UNION {Range(actions[i].authorization) : i \in DOMAIN actions} |->
     Min({DelayOf(actions[i], delay) :
            i \in {j \in DOMAIN actions : l \in Range(actions[j].authorization)}})]

CheckSatisfied(need, db, keys, provided) ==
  LET r == [l \in DOMAIN need |-> satisfied(db, Checker(keys, provided, need[l]), l)]
  IN  /\ \A l \in DOMAIN need : r[l].ok
      /\ keys = UNION {r[l].c.used : l \in DOMAIN need}   \* all_keys_used

check_authorization(s, actions, keys, provided, delay) ==
  /\ \A i \in DOMAIN actions : CheckAction(s, actions[i])
  /\ CheckSatisfied(ToSatisfy(actions, EffectiveDelay(delay)), s.perms, keys, provided)

\* get_required_keys: what the candidates are used for, in order
get_required_keys(db, t, candidates) ==
  UNION {satisfied(db, Checker(candidates, {}, Def[t].delay), l).c.used : l \in Declared(t)}

-----------------------------------------------------------------------------
(* The native actions: what the handlers of eosio_contract.cpp assert, and *)
(* what they do.  A state s has the fields perms, links and delayed.       *)

validate(auth) ==
  /\ auth.threshold > 0
  /\ FoldSeq(LAMBDA f, sum : sum + f.weight, 0, auth.factors) >= auth.threshold

\* validate_authority_precondition, with the accounts that exist
Resolves(db, accounts, auth) ==
  \A f \in Range(auth.factors) : f.kind = "account" =>
    /\ f.of[1] \in accounts
    /\ f.of[2] \in {"owner", "active", Code} \/ f.of \in DOMAIN db

UpdateAllowed(s, a) ==
  /\ a.permission \notin Reserved \union {NoName, a.parent}
  /\ validate(a.auth)
  /\ a.permission = "active" => a.parent = "owner"
  /\ (a.permission = "owner") <=> (a.parent = NoName)
  /\ \A f \in Range(a.auth.factors) : f.kind = "wait" => f.of <= MaxDelay
  /\ Resolves(s.perms, Accounts(s.perms), a.auth)
  /\ a.permission # "owner" => <<a.account, a.parent>> \in DOMAIN s.perms
  /\ <<a.account, a.permission>> \in DOMAIN s.perms =>
       a.parent = s.perms[<<a.account, a.permission>>].parent

\* modify_permission or create_permission
updateauth(s, a) ==
  [s EXCEPT !.perms = ((<<a.account, a.permission>>) :> [parent |-> a.parent, auth |-> a.auth]) @@ @]

DeleteAllowed_Linked(s, a) ==
  /\ a.permission \notin {"active", "owner"}
  /\ <<a.account, a.permission>> \in DOMAIN s.perms
  /\ \A l \in DOMAIN s.perms : l[1] = a.account => s.perms[l].parent # a.permission

DeleteAllowed(s, a) ==
  /\ a.permission \notin {"active", "owner"}
  /\ \A k \in DOMAIN s.links : k[1] = a.account => s.links[k] # a.permission
  /\ <<a.account, a.permission>> \in DOMAIN s.perms
  /\ \A l \in DOMAIN s.perms : l[1] = a.account => s.perms[l].parent # a.permission

\* remove_permission
deleteauth(s, a) ==
  [s EXCEPT !.perms = Restrict(@, DOMAIN @ \ {<<a.account, a.permission>>})]

\* Until the protocol feature is active a permission of that name of any
\* account will do.
CanLinkTo(s, a) ==
  \/ a.requirement = AnyName
  \/ <<a.account, a.requirement>> \in DOMAIN s.perms
  \/ ~OnlyLinkToExisting /\ \E l \in DOMAIN s.perms : l[2] = a.requirement

LinkAllowed(s, a) ==
  /\ a.requirement # NoName
  /\ {a.account, a.code} \subseteq Accounts(s.perms)
  /\ CanLinkTo(s, a)
  /\ <<a.account, a.code, a.act>> \in DOMAIN s.links =>
       s.links[<<a.account, a.code, a.act>>] # a.requirement

linkauth(s, a) ==
  [s EXCEPT !.links = ((<<a.account, a.code, a.act>>) :> a.requirement) @@ @]

UnlinkAllowed(s, a) == <<a.account, a.code, a.act>> \in DOMAIN s.links

unlinkauth(s, a) ==
  [s EXCEPT !.links = Restrict(@, DOMAIN @ \ {<<a.account, a.code, a.act>>})]

\* cancel_deferred_transaction
canceldelay(s, a) == [s EXCEPT !.delayed = Restrict(@, DOMAIN @ \ {a.trx})]

NewAccountAllowed(s, a) ==
  /\ \E i \in DOMAIN a.authorization : a.authorization[i][1] = a.creator
  /\ validate(a.owner) /\ validate(a.active)
  /\ a.name \notin Accounts(s.perms)
  /\ \A auth \in {a.owner, a.active} :
       Resolves(s.perms, Accounts(s.perms) \union {a.name}, auth)

newaccount(s, a) ==
  [s EXCEPT !.perms = ((<<a.name, "owner">>) :> [parent |-> NoName, auth |-> a.owner])
                   @@ ((<<a.name, "active">>) :> [parent |-> "owner", auth |-> a.active]) @@ @]

Allowed(s, a) ==
  CASE a.type = "updateauth" -> UpdateAllowed(s, a)
    [] a.type = "deleteauth" -> DeleteAllowed(s, a)
    [] a.type = "linkauth" -> LinkAllowed(s, a)
    [] a.type = "unlinkauth" -> UnlinkAllowed(s, a)
    [] a.type = "newaccount" -> NewAccountAllowed(s, a)
    [] OTHER -> TRUE

Applied(s, a) ==
  CASE a.type = "updateauth" -> updateauth(s, a)
    [] a.type = "deleteauth" -> deleteauth(s, a)
    [] a.type = "linkauth" -> linkauth(s, a)
    [] a.type = "unlinkauth" -> unlinkauth(s, a)
    [] a.type = "newaccount" -> newaccount(s, a)
    [] a.type = "canceldelay" -> canceldelay(s, a)
    [] OTHER -> s

\* The actions of a transaction, one after the other: r.ok is FALSE once one
\* of them failed.
Step(r, a) ==
  IF r.ok /\ Allowed(r.s, a) THEN [ok |-> TRUE, s |-> Applied(r.s, a)]
  ELSE [ok |-> FALSE, s |-> r.s]

Exec(s, actions) == FoldLeft(Step, [ok |-> TRUE, s |-> s], actions)

State == [perms |-> perms, links |-> links, delayed |-> delayed]

Become(s) == perms' = s.perms /\ links' = s.links /\ delayed' = s.delayed

-----------------------------------------------------------------------------
Init ==
  /\ perms = Genesis
  /\ links = <<>>
  /\ delayed = <<>>

\* push_transaction: checked and executed, or not at all.
Push(t, keys) ==
  /\ Def[t].delay = 0
  /\ check_authorization(State, Def[t].actions, keys, {}, 0)
  /\ LET r == Exec(State, Def[t].actions) IN r.ok /\ Become(r.s)

\* schedule_transaction: a delayed transaction is checked and stored.
Schedule(t, keys) ==
  /\ Def[t].delay > 0
  /\ t \notin DOMAIN delayed
  /\ check_authorization(State, Def[t].actions, keys, {}, Def[t].delay)
  /\ delayed' = delayed @@ (t :> Def[t].delay)
  /\ UNCHANGED <<perms, links>>

Tick ==
  /\ \E t \in DOMAIN delayed : delayed[t] > 0
  /\ delayed' = [t \in DOMAIN delayed |-> IF delayed[t] = 0 THEN 0 ELSE delayed[t] - 1]
  /\ UNCHANGED <<perms, links>>

\* push_scheduled_transaction: executed, or retired without effect.
ExecuteDelayed(t) ==
  /\ t \in DOMAIN delayed /\ delayed[t] = 0
  /\ LET s == [State EXCEPT !.delayed = Restrict(@, DOMAIN @ \ {t})]
         r == Exec(s, Def[t].actions)
     IN  Become(IF r.ok THEN r.s ELSE s)

\* pending_block_time - published: nothing for a transaction that is executed
\* when it arrives; what a delayed or a deferred one waited, which may be
\* longer than its delay.
Waited == 0 .. MaxDelay

\* execute_inline, for a contract that is not privileged, in a transaction that
\* waited for delay
SendInline(contract, a, delay) ==
  /\ contract \in Accounts(perms)
  /\ Range(a.authorization) \subseteq DOMAIN perms
  /\ check_authorization(State, <<a>>, {}, {<<contract, Code>>}, delay)
  /\ LET r == Exec(State, <<a>>) IN r.ok /\ Become(r.s)

Next ==
  \/ \E t \in Trxs, keys \in SUBSET Keys : Push(t, keys) \/ Schedule(t, keys)
  \/ Tick
  \/ \E t \in Trxs : ExecuteDelayed(t)
  \/ \E i \in Inline, delay \in Waited : SendInline(i[1], i[2], delay)

Spec == Init /\ [][Next]_vars

-----------------------------------------------------------------------------
TypeOK ==
  /\ \A l \in DOMAIN perms : Len(l) = 2 /\ DOMAIN perms[l] = {"parent", "auth"}
  /\ \A k \in DOMAIN links : Len(k) = 3
  /\ DOMAIN delayed \subseteq Trxs

\* The permissions of an account form a tree below its owner permission, and
\* its active permission is there: remove_permission refuses to take away a
\* permission with children, however stale the check of a delayed deleteauth
\* is, and satisfies can always walk up to the root.
PermissionsAreTrees ==
  \A l \in DOMAIN perms :
    /\ <<l[1], "active">> \in DOMAIN perms
    /\ perms[l].parent # NoName => <<l[1], perms[l].parent>> \in DOMAIN perms
    /\ (perms[l].parent = NoName) <=> (l[2] = "owner")
    /\ Suffices(perms, <<l[1], "owner">>, l)

\* Every link names a permission of its account, or eosio.any: deleteauth
\* refuses a permission that is linked and linkauth one that does not exist,
\* also when a delayed transaction was checked before the permission went.
LinksResolve ==
  \A k \in DOMAIN links : links[k] = AnyName \/ <<k[1], links[k]>> \in DOMAIN perms

\* What the declared authorization of an action has to stand above.
Needed(s, a, l) ==
  CASE a.type = "updateauth" -> <<a.account, IF <<a.account, a.permission>> \in DOMAIN s.perms
                                             THEN a.permission ELSE a.parent>>
    [] a.type = "deleteauth" -> <<a.account, a.permission>>
    [] a.type = "canceldelay" -> a.canceling_auth
    [] OTHER -> l

\* The permissions that may be changed by someone with these keys: those
\* that are satisfied, in the least sense, and those below them.
Commands(s, keys, provided, delay, l) ==
  \E m \in SatisfiedSet(s.perms, keys, provided, delay) \intersect DOMAIN s.perms :
    satisfies(s.perms, m, l)

\* check_authorization accepts a transaction only if each of its actions is
\* about a permission below one that the keys, the permissions and the delay
\* of the transaction really satisfy: neither the cache of the checker nor
\* permissions that refer to one another make up for a missing key.
AcceptedIsAuthorised ==
  /\ \A t \in Trxs, keys \in SUBSET Keys :
       check_authorization(State, Def[t].actions, keys, {}, Def[t].delay) =>
         \A i \in DOMAIN Def[t].actions : LET a == Def[t].actions[i] IN
           \A j \in DOMAIN a.authorization :
             Commands(State, keys, {}, DelayOf(a, EffectiveDelay(Def[t].delay)),
                      Needed(State, a, a.authorization[j]))
  /\ \A i \in Inline, delay \in Waited :
       check_authorization(State, <<i[2]>>, {}, {<<i[1], Code>>}, delay) =>
         \A j \in DOMAIN i[2].authorization :
           Commands(State, {}, {<<i[1], Code>>}, DelayOf(i[2], EffectiveDelay(delay)),
                    Needed(State, i[2], i[2].authorization[j]))

\* satisfied finds a permission that the keys and the delay really satisfy,
\* as long as the permissions it refers to are not nested as deep as the
\* limit: the statuses remembered on the way never hide one.
SatisfiedWhenShallow ==
  LET shallow == {l \in DOMAIN perms : Shallow(perms, l)}
  IN \A keys \in SUBSET Keys, delay \in {0, MaxDelay} :
       \A l \in SatisfiedSet(perms, keys, {}, delay) \cap shallow :
         satisfied(perms, Checker(keys, {}, delay), l).ok

\* The keys get_required_keys picks from those of a wallet are the ones to
\* sign with: the transaction then passes check_authorization.
RequiredKeysSuffice ==
  \A t \in Trxs, wallet \in SUBSET Keys :
    /\ \A l \in Declared(t) : satisfied(perms, Checker(wallet, {}, Def[t].delay), l).ok
    /\ \A i \in DOMAIN Def[t].actions : CheckAction(State, Def[t].actions[i])
    => check_authorization(State, Def[t].actions, get_required_keys(perms, t, wallet), {}, Def[t].delay)
=============================================================================
