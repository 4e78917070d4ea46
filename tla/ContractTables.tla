--------------------------- MODULE ContractTables ---------------------------
(***************************************************************************)
(* The tables of the contracts and the iterators the contracts walk them   *)
(* with: apply_context's db_*_i64 functions over key_value_object, the     *)
(* generic_index of the secondary indices, the iterator_cache both hand    *)
(* iterators out from, and the RAM each row and each table is billed for.  *)
(*                                                                         *)
(* An iterator is an integer: i >= 0 is an object the cache has seen,      *)
(* -1 is invalid and -2, -3, ... are the ends of the tables it has seen.   *)
(* The cache holds POINTERS to chainbase objects, so the objects of this   *)
(* module have addresses, and the address of a removed object may be given *)
(* to a later one.  The cache belongs to the apply_context, which runs one *)
(* action for its first receiver and then for every notified one: the      *)
(* iterators outlive the change of receiver, the RAM deltas do not.        *)
(*                                                                         *)
(* A failing EOS_ASSERT throws and the transaction's undo session takes    *)
(* everything back (Controller), so a call that fails is no step here.     *)
(***************************************************************************)
EXTENDS Integers, SequencesExt, FiniteSetsExt

CONSTANTS
    TableAddrs, KvAddrs, IdxAddrs,  \* addresses for the three kinds of object
    nullptr,
    Codes, TableNames,              \* tables are named (code, table); the scope is left out
    Accounts, NoAccount,            \* payers (Codes among them); account_name()
    Keys, Secondaries, Sizes,       \* primary keys, secondary keys, sizes of a value
    KvOverhead, IdxSize, TableSize, \* config::billable_size_v of the three kinds of object
    AuthSets,                       \* the sets of actors an action may be authorized by
    Privileged,                     \* the codes whose account is privileged
    RamRestrictions,                \* is the builtin feature ram_restrictions activated?
    NotifyBilling,                  \* control.is_ram_billing_in_notify_allowed()
    MaxTableId, MaxIterators, MaxEnds  \* bounds: tables created, entries of a cache

TablesAssumption ==
    /\ KvOverhead \in Nat /\ IdxSize \in Nat /\ TableSize \in Nat
    /\ Codes \subseteq Accounts /\ Privileged \subseteq Codes /\ NoAccount \notin Accounts
    /\ Keys \subseteq Nat /\ Secondaries \subseteq Nat /\ Sizes \subseteq Nat

VARIABLES
    tables,    \* address -> table_id_object, or Free
    kv,        \* address -> key_value_object, or Free
    idx,       \* address -> index64_object, or Free
    lastId,    \* the last id given to a table
    ram,       \* account -> RAM billed to it
    deltas,    \* _account_ram_deltas of the running exec_one
    keyval,    \* keyval_cache
    itr_cache, \* idx64.itr_cache
    names,     \* history: the rows the iterators of the two caches were handed out for
    receiver, account, auths  \* receiver, act->account, actors of act->authorization

db == <<tables, kv, idx, lastId, ram, deltas>>
context == <<receiver, account, auths>>
vars == <<db, keyval, itr_cache, names, context>>

Free == [id |-> 0, t_id |-> 0]
LiveTables == {a \in TableAddrs : tables[a].id # 0}
LiveKv     == {a \in KvAddrs : kv[a].t_id # 0}
LiveIdx    == {a \in IdxAddrs : idx[a].t_id # 0}

-----------------------------------------------------------------------------
(* iterator_cache *)

EmptyCache == [tab |-> <<>>, ends |-> <<>>, obj |-> <<>>, itr |-> <<>>]

end_iterator_to_index(ei) == -ei - 2
index_to_end_iterator(i) == -(i + 2)

\* The table at address a, whose id is tid, is in the cache from now on.
cache_table(c, a, tid) ==
    IF tid \in DOMAIN c.tab THEN c
    ELSE [c EXCEPT !.ends = Append(@, a),
                   !.tab = (tid :> [addr |-> a, ei |-> index_to_end_iterator(Len(c.ends))]) @@ @]

get_end_iterator_by_table_id(c, tid) == c.tab[tid].ei
get_table(c, tid) == c.tab[tid].addr

\* The address of the table an end iterator stands for, if any.
find_table_by_end_iterator(c, ei) ==
    IF end_iterator_to_index(ei) >= Len(c.ends) THEN nullptr ELSE c.ends[end_iterator_to_index(ei) + 1]

Gets(c, i) == i >= 0 /\ i < Len(c.obj) /\ c.obj[i + 1] # nullptr
get(c, i) == c.obj[i + 1]

remove_KeepsIterator(c, i) == [c EXCEPT !.obj[i + 1] = nullptr]

remove(c, i) == [c EXCEPT !.obj[i + 1] = nullptr,
                          !.itr = [a \in DOMAIN @ \ {get(c, i)} |-> @[a]]]

add(c, a) ==
    IF a \in DOMAIN c.itr THEN c
    ELSE [c EXCEPT !.obj = Append(@, a), !.itr = (a :> Len(c.obj)) @@ @]

-----------------------------------------------------------------------------
(* The ordered indices: by_scope_primary of key_value_object, by_primary   *)
(* and by_secondary of index64_object.  Each orders the rows of ALL tables *)
(* by a composite key that begins with the table's id.                     *)

Views == {"i64", "primary", "secondary"}

Rows(v) == IF v = "i64" THEN LiveKv ELSE LiveIdx
Row(v, a) == IF v = "i64" THEN kv[a] ELSE idx[a]
Cache(v) == IF v = "i64" THEN keyval ELSE itr_cache

Key(v, a) ==
    IF v = "secondary" THEN <<idx[a].t_id, idx[a].secondary_key, idx[a].primary_key>>
    ELSE <<Row(v, a).t_id, Row(v, a).primary_key>>

\* composite_key_compare, a shorter key being compared as a prefix.
Less(k, l) ==
    \E i \in 1..(IF Len(k) < Len(l) THEN Len(k) ELSE Len(l)) :
        k[i] < l[i] /\ \A j \in 1..(i - 1) : k[j] = l[j]

First(v, S) == CHOOSE a \in S : \A b \in S \ {a} : Less(Key(v, a), Key(v, b))
Final(v, S) == CHOOSE a \in S : \A b \in S \ {a} : Less(Key(v, b), Key(v, a))

LowerBound(v, k) == {a \in Rows(v) : ~Less(Key(v, a), k)}
UpperBound(v, k) == {a \in Rows(v) : Less(k, Key(v, a))}
Before(v, k)     == Rows(v) \ UpperBound(v, k)

\* What a reading call returns: an iterator that is already known, or the
\* row whose iterator the cache gives out.
Known(i) == [row |-> nullptr, iterator |-> i]
Given(a) == [row |-> a, iterator |-> 0]

find_table(code, t) == {a \in LiveTables : tables[a].code = code /\ tables[a].table = t}

\* The first row of S if it is a row of table tid, the end of the table otherwise.
FirstOfTable(v, S, tid, end) ==
    IF S = {} THEN Known(end)
    ELSE IF Row(v, First(v, S)).t_id # tid THEN Known(end)
    ELSE Given(First(v, S))

End(v, ta) == get_end_iterator_by_table_id(cache_table(Cache(v), ta, tables[ta].id), tables[ta].id)

LowerResult(v, ta, k) ==
    FirstOfTable(v, LowerBound(v, <<tables[ta].id, k>>), tables[ta].id, End(v, ta))
UpperResult(v, ta, k) ==
    FirstOfTable(v, UpperBound(v, <<tables[ta].id, k>>), tables[ta].id, End(v, ta))
FindResult(v, ta, k) ==
    LET found == {a \in Rows(v) : SubSeq(Key(v, a), 1, 2) = <<tables[ta].id, k>>}
    IN IF found = {} THEN Known(End(v, ta)) ELSE Given(First(v, found))

NextResult(v, i) ==
    IF i < -1 THEN Known(-1)
    ELSE FirstOfTable(v, UpperBound(v, Key(v, get(Cache(v), i))), Row(v, get(Cache(v), i)).t_id,
                      get_end_iterator_by_table_id(Cache(v), Row(v, get(Cache(v), i)).t_id))

\* The last row of S if it is a row of table tid.
LastOfTable(v, S, tid) ==
    IF S = {} THEN Known(-1)
    ELSE IF Row(v, Final(v, S)).t_id # tid THEN Known(-1)
    ELSE Given(Final(v, S))

\* The table's pointer is read even when the table has been removed.  Its
\* memory then holds no table's id, or the id of the table it was given to.
previous_of_end(v, ta) == LastOfTable(v, Before(v, <<tables[ta].id>>), tables[ta].id)
previous_of_row(v, a) ==
    LastOfTable(v, {b \in Rows(v) : Less(Key(v, b), Key(v, a))}, Row(v, a).t_id)

PreviousResult(v, i) ==
    IF i < -1 THEN previous_of_end(v, find_table_by_end_iterator(Cache(v), i))
    ELSE previous_of_row(v, get(Cache(v), i))

-----------------------------------------------------------------------------
(* RAM *)

has_authorization(a) == a \in auths

\* update_db_usage's checks on a positive delta.
MayBill(payer, delta) ==
    delta > 0 =>
        \/ receiver \in Privileged \/ payer = receiver \/ RamRestrictions
        \/ (NotifyBilling \/ receiver = account) /\ has_authorization(payer)

Billed(bills, a) ==
    LET bill(i) == IF i \in DOMAIN bills /\ bills[i][1] = a THEN bills[i][2] ELSE 0
    IN bill(1) + bill(2)

\* At most two calls of update_db_usage, each <<payer, delta>>.
update_db_usage(bills) ==
    /\ \A i \in DOMAIN bills : MayBill(bills[i][1], bills[i][2])
    /\ ram' = [a \in Accounts |-> ram[a] + Billed(bills, a)]
    /\ deltas' = [a \in Accounts |-> deltas[a] + Billed(bills, a)]

-----------------------------------------------------------------------------
(* Writing *)

TableRecord(i, t, p) == [id |-> i, t_id |-> 0, code |-> receiver, table |-> t, payer |-> p, count |-> 0]
RowRecord(tid, p, k, s, n) ==
    [id |-> 0, t_id |-> tid, primary_key |-> k, secondary_key |-> s, payer |-> p, size |-> n]

\* find_or_create_table for the receiver's table t at address ta, followed
\* by ++count; rowBill is what the row costs.
FindOrCreate(ta, t, payer, rowBill) ==
    \/ /\ ta \in find_table(receiver, t)
       /\ tables' = [tables EXCEPT ![ta].count = @ + 1]
       /\ lastId' = lastId
       /\ update_db_usage(<<<<payer, rowBill>>>>)
    \/ /\ find_table(receiver, t) = {} /\ ta \notin LiveTables
       /\ lastId < MaxTableId
       /\ tables' = [tables EXCEPT ![ta] = [TableRecord(lastId + 1, t, payer) EXCEPT !.count = 1]]
       /\ lastId' = lastId + 1
       /\ update_db_usage(<<<<payer, TableSize>>, <<payer, rowBill>>>>)

HasRoom(c) == Len(c.obj) < MaxIterators /\ Len(c.ends) < MaxEnds

Name(seq, c, a, k) == IF a \in DOMAIN c.itr THEN seq ELSE Append(seq, k)

db_store_i64(t, payer, k, n) ==
    \E ta \in TableAddrs, a \in KvAddrs \ LiveKv :
        /\ HasRoom(keyval)
        /\ FindOrCreate(ta, t, payer, n + KvOverhead)
        /\ \A b \in LiveKv : Key("i64", b) # <<tables'[ta].id, k>>
        /\ kv' = [kv EXCEPT ![a] = RowRecord(tables'[ta].id, payer, k, 0, n)]
        /\ keyval' = add(cache_table(keyval, ta, tables'[ta].id), a)
        /\ names' = [names EXCEPT !.kv = Name(@, keyval, a, <<tables'[ta].id, k>>)]
        /\ UNCHANGED <<idx, itr_cache, context>>

store(t, payer, k, s) ==
    \E ta \in TableAddrs, a \in IdxAddrs \ LiveIdx :
        /\ HasRoom(itr_cache)
        /\ FindOrCreate(ta, t, payer, IdxSize)
        /\ \A b \in LiveIdx : Key("primary", b) # <<tables'[ta].id, k>>
        /\ idx' = [idx EXCEPT ![a] = RowRecord(tables'[ta].id, payer, k, s, 0)]
        /\ itr_cache' = add(cache_table(itr_cache, ta, tables'[ta].id), a)
        /\ names' = [names EXCEPT !.idx = Name(@, itr_cache, a, <<tables'[ta].id, k>>)]
        /\ UNCHANGED <<kv, keyval, context>>

\* The table an iterator's row is in must belong to the receiver.
Owns(c, tid) == tables[get_table(c, tid)].code = receiver

NewPayer(row, payer) == IF payer = NoAccount THEN row.payer ELSE payer

\* What changing a row's payer and billed size costs whom.
Rebill_ChargeOnly(row, payer, old, new) ==
    IF row.payer # payer THEN <<<<payer, new>>>>
    ELSE IF old # new THEN <<<<payer, new - old>>>> ELSE <<>>

Rebill(row, payer, old, new) ==
    IF row.payer # payer THEN <<<<row.payer, -old>>, <<payer, new>>>>
    ELSE IF old # new THEN <<<<payer, new - old>>>> ELSE <<>>

db_update_i64(i, payer, n) ==
    /\ Gets(keyval, i)
    /\ LET a == get(keyval, i)
           p == NewPayer(kv[a], payer)
       IN /\ Owns(keyval, kv[a].t_id)
          /\ update_db_usage(Rebill(kv[a], p, kv[a].size + KvOverhead, n + KvOverhead))
          /\ kv' = [kv EXCEPT ![a].size = n, ![a].payer = p]
    /\ UNCHANGED <<tables, idx, lastId, keyval, itr_cache, names, context>>

update(i, payer, s) ==
    /\ Gets(itr_cache, i)
    /\ LET a == get(itr_cache, i)
           p == NewPayer(idx[a], payer)
       IN /\ Owns(itr_cache, idx[a].t_id)
          /\ update_db_usage(Rebill(idx[a], p, IdxSize, IdxSize))
          /\ idx' = [idx EXCEPT ![a].secondary_key = s, ![a].payer = p]
    /\ UNCHANGED <<tables, kv, lastId, keyval, itr_cache, names, context>>

\* --count, and remove_table when it is 0.
DropRow(ta, payer, rowBill) ==
    \/ /\ tables[ta].count = 1
       /\ tables' = [tables EXCEPT ![ta] = Free]
       /\ update_db_usage(<<<<payer, -rowBill>>, <<tables[ta].payer, -TableSize>>>>)
    \/ /\ tables[ta].count # 1
       /\ tables' = [tables EXCEPT ![ta].count = @ - 1]
       /\ update_db_usage(<<<<payer, -rowBill>>>>)

db_remove_i64(i) ==
    /\ Gets(keyval, i)
    /\ LET a == get(keyval, i)
       IN /\ Owns(keyval, kv[a].t_id)
          /\ DropRow(get_table(keyval, kv[a].t_id), kv[a].payer, kv[a].size + KvOverhead)
          /\ kv' = [kv EXCEPT ![a] = Free]
    /\ keyval' = remove(keyval, i)
    /\ UNCHANGED <<idx, lastId, itr_cache, names, context>>

remove_row(i) ==
    /\ Gets(itr_cache, i)
    /\ LET a == get(itr_cache, i)
       IN /\ Owns(itr_cache, idx[a].t_id)
          /\ DropRow(get_table(itr_cache, idx[a].t_id), idx[a].payer, IdxSize)
          /\ idx' = [idx EXCEPT ![a] = Free]
    /\ itr_cache' = remove(itr_cache, i)
    /\ UNCHANGED <<kv, lastId, keyval, names, context>>

-----------------------------------------------------------------------------
(* Reading: a call may bring a table and a row into the cache. *)

\* The cache c after a call that returned r.
WithResult(c, r) == IF r.row = nullptr THEN c ELSE add(c, r.row)

NamesAfter(v, seq, c, r) ==
    IF r.row = nullptr THEN seq
    ELSE Name(seq, c, r.row, <<Row(v, r.row).t_id, Row(v, r.row).primary_key>>)

\* A call on view v that returned r, the cache being c before r is added.
Reads(v, c, r) ==
    /\ HasRoom(Cache(v))
    /\ IF v = "i64"
       THEN /\ keyval' = WithResult(c, r)
            /\ names' = [names EXCEPT !.kv = NamesAfter(v, @, c, r)]
            /\ UNCHANGED itr_cache
       ELSE /\ itr_cache' = WithResult(c, r)
            /\ names' = [names EXCEPT !.idx = NamesAfter(v, @, c, r)]
            /\ UNCHANGED keyval
    /\ UNCHANGED <<db, context>>

Caching(v, ta) == cache_table(Cache(v), ta, tables[ta].id)

db_find_i64(code, t, k) ==
    \E ta \in find_table(code, t) : Reads("i64", Caching("i64", ta), FindResult("i64", ta, k))
db_lowerbound_i64(code, t, k) ==
    \E ta \in find_table(code, t) : Reads("i64", Caching("i64", ta), LowerResult("i64", ta, k))
db_upperbound_i64(code, t, k) ==
    \E ta \in find_table(code, t) : Reads("i64", Caching("i64", ta), UpperResult("i64", ta, k))
db_end_i64(code, t) ==
    \E ta \in find_table(code, t) : Reads("i64", Caching("i64", ta), Known(End("i64", ta)))

find_secondary(code, t, s) ==
    \E ta \in find_table(code, t) : Reads("secondary", Caching("secondary", ta), FindResult("secondary", ta, s))
lowerbound_secondary(code, t, s) ==
    \E ta \in find_table(code, t) : Reads("secondary", Caching("secondary", ta), LowerResult("secondary", ta, s))
upperbound_secondary(code, t, s) ==
    \E ta \in find_table(code, t) : Reads("secondary", Caching("secondary", ta), UpperResult("secondary", ta, s))
end_secondary(code, t) ==
    \E ta \in find_table(code, t) : Reads("secondary", Caching("secondary", ta), Known(End("secondary", ta)))

find_primary(code, t, k) ==
    \E ta \in find_table(code, t) : Reads("primary", Caching("primary", ta), FindResult("primary", ta, k))
lowerbound_primary(code, t, k) ==
    \E ta \in find_table(code, t) : Reads("primary", Caching("primary", ta), LowerResult("primary", ta, k))
upperbound_primary(code, t, k) ==
    \E ta \in find_table(code, t) : Reads("primary", Caching("primary", ta), UpperResult("primary", ta, k))

\* next is only called on rows and previous on rows and known ends: on
\* anything else they return -1 or throw.
Nexts(v, i) == Gets(Cache(v), i) /\ Reads(v, Cache(v), NextResult(v, i))
Previouses(v, i) ==
    /\ IF i < -1 THEN find_table_by_end_iterator(Cache(v), i) # nullptr ELSE Gets(Cache(v), i)
    /\ Reads(v, Cache(v), PreviousResult(v, i))

db_next_i64(i) == Nexts("i64", i)
db_previous_i64(i) == Previouses("i64", i)
next_secondary(i) == Nexts("secondary", i)
previous_secondary(i) == Previouses("secondary", i)
next_primary(i) == Nexts("primary", i)
previous_primary(i) == Previouses("primary", i)

-----------------------------------------------------------------------------
(* The actions of the transaction *)

MayFinish_Notified ==
    ~(receiver \in Privileged) /\ RamRestrictions =>
        \A a \in Accounts \ {receiver} : deltas[a] > 0 => has_authorization(a)

\* exec_one's check of the deltas when the receiver's code has run.
MayFinish ==
    ~(receiver \in Privileged) /\ RamRestrictions =>
        \A a \in Accounts \ {receiver} :
            deltas[a] > 0 => receiver = account /\ has_authorization(a)

\* exec_one is over and exec goes on with the next notified receiver.
Notify(r) ==
    /\ MayFinish
    /\ r # receiver
    /\ receiver' = r
    /\ deltas' = [a \in Accounts |-> 0]
    /\ UNCHANGED <<tables, kv, idx, lastId, ram, keyval, itr_cache, names, account, auths>>

\* exec_one is over and the next action gets an apply_context of its own.
NextAction(r, au) ==
    /\ MayFinish
    /\ receiver' = r /\ account' = r /\ auths' = au
    /\ deltas' = [a \in Accounts |-> 0]
    /\ keyval' = EmptyCache /\ itr_cache' = EmptyCache
    /\ names' = [kv |-> <<>>, idx |-> <<>>]
    /\ UNCHANGED <<tables, kv, idx, lastId, ram>>

Init ==
    /\ tables = [a \in TableAddrs |-> Free] /\ kv = [a \in KvAddrs |-> Free]
    /\ idx = [a \in IdxAddrs |-> Free] /\ lastId = 0
    /\ ram = [a \in Accounts |-> 0] /\ deltas = [a \in Accounts |-> 0]
    /\ keyval = EmptyCache /\ itr_cache = EmptyCache
    /\ names = [kv |-> <<>>, idx |-> <<>>]
    /\ receiver \in Codes /\ account = receiver /\ auths \in AuthSets

Iterators == -(MaxEnds + 1)..(MaxIterators - 1)

KvCalls ==
    \/ \E t \in TableNames, p \in Accounts, k \in Keys, n \in Sizes : db_store_i64(t, p, k, n)
    \/ \E i \in Iterators, p \in Accounts \cup {NoAccount}, n \in Sizes : db_update_i64(i, p, n)
    \/ \E i \in Iterators : db_remove_i64(i)
    \/ \E c \in Codes, t \in TableNames, k \in Keys : db_find_i64(c, t, k)
    \/ \E c \in Codes, t \in TableNames, k \in Keys : db_lowerbound_i64(c, t, k)
    \/ \E c \in Codes, t \in TableNames, k \in Keys : db_upperbound_i64(c, t, k)
    \/ \E c \in Codes, t \in TableNames : db_end_i64(c, t)
    \/ \E i \in Iterators : db_next_i64(i)
    \/ \E i \in Iterators : db_previous_i64(i)

IdxCalls ==
    \/ \E t \in TableNames, p \in Accounts, k \in Keys, s \in Secondaries : store(t, p, k, s)
    \/ \E i \in Iterators, p \in Accounts \cup {NoAccount}, s \in Secondaries : update(i, p, s)
    \/ \E i \in Iterators : remove_row(i)
    \/ \E c \in Codes, t \in TableNames, s \in Secondaries : find_secondary(c, t, s)
    \/ \E c \in Codes, t \in TableNames, s \in Secondaries : lowerbound_secondary(c, t, s)
    \/ \E c \in Codes, t \in TableNames, s \in Secondaries : upperbound_secondary(c, t, s)
    \/ \E c \in Codes, t \in TableNames : end_secondary(c, t)
    \/ \E i \in Iterators : next_secondary(i)
    \/ \E i \in Iterators : previous_secondary(i)
    \/ \E c \in Codes, t \in TableNames, k \in Keys : find_primary(c, t, k)
    \/ \E c \in Codes, t \in TableNames, k \in Keys : lowerbound_primary(c, t, k)
    \/ \E c \in Codes, t \in TableNames, k \in Keys : upperbound_primary(c, t, k)
    \/ \E i \in Iterators : next_primary(i)
    \/ \E i \in Iterators : previous_primary(i)

Next ==
    \/ KvCalls
    \/ IdxCalls
    \/ \E r \in Codes : Notify(r)
    \/ \E r \in Codes, au \in AuthSets : NextAction(r, au)

Spec == Init /\ [][Next]_vars

-----------------------------------------------------------------------------
(* Properties *)

\* Every variable has its type.
TypeOK ==
    /\ lastId \in 0..MaxTableId
    /\ \A a \in LiveTables : tables[a].code \in Codes /\ tables[a].payer \in Accounts
    /\ \A a \in LiveKv : kv[a].primary_key \in Keys /\ kv[a].payer \in Accounts
    /\ \A a \in LiveIdx : idx[a].secondary_key \in Secondaries /\ idx[a].payer \in Accounts
    /\ \A a \in Accounts : ram[a] \in Nat /\ deltas[a] \in Int
    /\ receiver \in Codes /\ account \in Codes /\ auths \subseteq Accounts

RowsOf(tid) == Cardinality({a \in LiveKv : kv[a].t_id = tid}) + Cardinality({a \in LiveIdx : idx[a].t_id = tid})

\* A table_id_object's count is the number of rows that name its id, in
\* key_value_object and in the secondary indices together; the table exists
\* exactly while that is not 0, and no two tables have one name.
CountIsRows ==
    /\ \A a \in LiveTables : tables[a].count = RowsOf(tables[a].id) /\ tables[a].count > 0
    /\ \A a \in LiveKv : \E ta \in LiveTables : tables[ta].id = kv[a].t_id
    /\ \A a \in LiveIdx : \E ta \in LiveTables : tables[ta].id = idx[a].t_id
    /\ \A a, b \in LiveTables :
          a # b => tables[a].id # tables[b].id /\ <<tables[a].code, tables[a].table>> # <<tables[b].code, tables[b].table>>

RamOf(a) ==
      MapThenSumSet(LAMBDA b : IF kv[b].payer = a THEN kv[b].size + KvOverhead ELSE 0, LiveKv)
    + MapThenSumSet(LAMBDA b : IF idx[b].payer = a THEN IdxSize ELSE 0, LiveIdx)
    + MapThenSumSet(LAMBDA b : IF tables[b].payer = a THEN TableSize ELSE 0, LiveTables)

\* Across stores, changes of payer and size, removals and the removal of the
\* tables they empty, each account is billed for exactly the rows and the
\* tables it pays for now.
RamIsBilled == \A a \in Accounts : ram[a] = RamOf(a)

Points(c, rows, names_, row(_)) ==
    /\ Len(names_) = Len(c.obj)
    /\ \A i \in 1..Len(c.obj) :
          c.obj[i] # nullptr =>
            /\ c.obj[i] \in rows
            /\ <<row(c.obj[i]).t_id, row(c.obj[i]).primary_key>> = names_[i]
            /\ c.obj[i] \in DOMAIN c.itr /\ c.itr[c.obj[i]] = i - 1
    /\ \A a \in DOMAIN c.itr : c.obj[c.itr[a] + 1] = a

\* An iterator that can be dereferenced is the row it was handed out for,
\* although the addresses of removed rows are used again, and a row has one
\* iterator: _iterator_to_object and _object_to_iterator are inverses.
IteratorsDenoteRows ==
    /\ Points(keyval, LiveKv, names.kv, LAMBDA a : kv[a])
    /\ Points(itr_cache, LiveIdx, names.idx, LAMBDA a : idx[a])

InCache(c, row(_)) ==
    \A i \in 1..Len(c.obj) : c.obj[i] # nullptr =>
        /\ row(c.obj[i]).t_id \in DOMAIN c.tab
        /\ tables[get_table(c, row(c.obj[i]).t_id)].id = row(c.obj[i]).t_id

\* "an invariant was broken, table should be in cache" is never thrown, and
\* the pointer the cache has for the table of a live iterator's row is that
\* table, not one that was removed and not another at its address.
TableInCache == InCache(keyval, LAMBDA a : kv[a]) /\ InCache(itr_cache, LAMBDA a : idx[a])

LiveIterators(v) == {i \in 0..(Len(Cache(v).obj) - 1) : Gets(Cache(v), i)}
SameTable(v, a) == {b \in Rows(v) : Row(v, b).t_id = Row(v, a).t_id}

\* Whatever tables lie next to a table in the index, next and previous walk
\* the rows of that table alone, each once and in order, and previous of its
\* end is its last row: stepping forward and back returns to where one was.
ScansStayInTable ==
    \A v \in Views : \A i \in LiveIterators(v) :
        LET a     == get(Cache(v), i)
            after == {b \in SameTable(v, a) : Less(Key(v, a), Key(v, b))}
            end   == get_end_iterator_by_table_id(Cache(v), Row(v, a).t_id)
        IN /\ IF after = {} THEN NextResult(v, i) = Known(end) /\ PreviousResult(v, end) = Given(a)
              ELSE /\ NextResult(v, i).row \in after
                   /\ previous_of_row(v, NextResult(v, i).row) = Given(a)
           /\ PreviousResult(v, i) = Known(-1) <=> \A b \in SameTable(v, a) : ~Less(Key(v, b), Key(v, a))

ConsentStep ==
    deltas' # deltas /\ ram' = ram /\ receiver \notin Privileged
      => \A a \in Accounts \ {receiver} : deltas[a] > 0 =>
           /\ has_authorization(a)
           /\ RamRestrictions \/ ~NotifyBilling => receiver = account

\* An action of an unprivileged contract never leaves an account with more
\* RAM in use than before, unless it is the contract's own or one that
\* authorized the action, which does not count for a contract that is only
\* notified of it; with ram_restrictions this is decided on the net effect of
\* the action, without it on every call.
RamRisesWithConsent == [][ConsentStep]_vars

=============================================================================
