-------------------------------- MODULE Dict --------------------------------
(***************************************************************************)
(* The hash table of hiredis (dict.c, dict.h), in which the asynchronous   *)
(* context keeps the callbacks of channels and patterns.  A table has      *)
(* size chains of entries; map is what it stands for.                      *)
(***************************************************************************)
EXTENDS Integers, Sequences, FiniteSets, SequencesExt

CONSTANTS
    Key, Val,
    Hash,          \* the hash of each key
    InitialSize,   \* DICT_HT_INITIAL_SIZE, 4 in the code
    MaxEntries     \* bound: entries in the table

ASSUME DictAssumption ==
    /\ Hash \in [Key -> Nat]
    /\ InitialSize \in Nat \ {0} /\ \E e \in 0 .. 10 : InitialSize = 2 ^ e

Entry(key, val) == [key |-> key, val |-> val]

_dictReset == [size |-> 0, used |-> 0, table |-> <<>>]

(* dictHashKey & sizemask: the size is a power of two. *)
Slot(size, key) == Hash[key] % size

_dictNextPower(size) ==
    LET power[e \in 0 .. size] == IF e = 0 THEN InitialSize ELSE power[e - 1] * 2
    IN  power[CHOOSE e \in 0 .. size : power[e] >= size /\ \A d \in 0 .. e - 1 : power[d] < size]

(* Every chain is taken from its head and its entries put at the heads of  *)
(* the new ones.                                                           *)
Move(table, size, e) == [table EXCEPT ![Slot(size, e.key)] = <<e>> \o @]
MoveChain(table, size, chain) ==
    LET after[j \in 0 .. Len(chain)] ==
            IF j = 0 THEN table ELSE Move(after[j - 1], size, chain[j])
    IN  after[Len(chain)]
Rehashed(ht, size) ==
    LET after[i \in 0 .. ht.size] ==
            IF i = 0 THEN [slot \in 0 .. size - 1 |-> <<>>]
            ELSE MoveChain(after[i - 1], size, ht.table[i - 1])
    IN  after[ht.size]

dictExpand(ht, size) ==
    LET realsize == _dictNextPower(size)
    IN  IF ht.used > size THEN ht
        ELSE [ht EXCEPT !.size = realsize, !.table = Rehashed(ht, realsize)]

_dictExpandIfNeeded(ht) ==
    IF ht.size = 0 THEN dictExpand(ht, InitialSize)
    ELSE IF ht.used = ht.size THEN dictExpand(ht, ht.size * 2)
    ELSE ht

(* Where the chain of key has it, 0 if nowhere. *)
Position(ht, key) ==
    LET chain == ht.table[Slot(ht.size, key)]
        at == {i \in DOMAIN chain : chain[i].key = key}
    IN  IF at = {} THEN 0 ELSE CHOOSE i \in at : \A j \in at : i <= j

(* The table may have grown though the key was there.                      *)
dictAdd(ht, key, val) ==
    LET grown == _dictExpandIfNeeded(ht)
        h == Slot(grown.size, key)
    IN  IF Position(grown, key) # 0 THEN [added |-> FALSE, ht |-> grown]
        ELSE [added |-> TRUE,
              ht |-> [grown EXCEPT !.table[h] = <<Entry(key, val)>> \o @, !.used = @ + 1]]

dictReplace(ht, key, val) ==
    LET add == dictAdd(ht, key, val)
        h == Slot(add.ht.size, key)
    IN  IF add.added THEN add.ht
        ELSE [add.ht EXCEPT !.table[h][Position(add.ht, key)].val = val]

(* Fault: what follows the entry in its chain is lost. *)
dictDeleteRest(ht, key) ==
    LET h == Slot(ht.size, key)
    IN  IF ht.size = 0 \/ Position(ht, key) = 0 THEN ht
        ELSE [ht EXCEPT !.table[h] = SubSeq(@, 1, Position(ht, key) - 1), !.used = @ - 1]

dictDelete(ht, key) ==
    LET h == Slot(ht.size, key)
    IN  IF ht.size = 0 \/ Position(ht, key) = 0 THEN ht
        ELSE [ht EXCEPT !.table[h] = RemoveAt(@, Position(ht, key)), !.used = @ - 1]

dictFind(ht, key) ==
    IF ht.size = 0 \/ Position(ht, key) = 0 THEN {}
    ELSE {ht.table[Slot(ht.size, key)][Position(ht, key)].val}

(* One dictNext: an iterator holds the index of a chain and the entry to   *)
(* return after this one, saved before the user sees this one.             *)
NewIterator == [index |-> -1, rest |-> <<>>]
dictNext(ht, iter) ==
    LET later == {i \in iter.index + 1 .. ht.size - 1 : ht.table[i] # <<>>}
        i == CHOOSE i \in later : \A j \in later : i <= j
    IN  IF iter.rest # <<>>
        THEN [some |-> TRUE, entry |-> Head(iter.rest), iter |-> [iter EXCEPT !.rest = Tail(@)]]
        ELSE IF later = {} THEN [some |-> FALSE]
        ELSE [some |-> TRUE, entry |-> Head(ht.table[i]),
              iter |-> [index |-> i, rest |-> Tail(ht.table[i])]]

-----------------------------------------------------------------------------
VARIABLES ht, map

dictVars == <<ht, map>>
DictInit == ht = _dictReset /\ map = <<>>

Replace(key, val) ==
    /\ Cardinality(DOMAIN map \cup {key}) <= MaxEntries
    /\ ht' = dictReplace(ht, key, val)
    /\ map' = [k \in DOMAIN map \cup {key} |-> IF k = key THEN val ELSE map[k]]

Delete(key) ==
    /\ ht' = dictDelete(ht, key) /\ map' = [k \in DOMAIN map \ {key} |-> map[k]]

_dictClear == ht' = _dictReset /\ map' = <<>>

DictNext ==
    \/ \E key \in Key, val \in Val : Replace(key, val)
    \/ \E key \in Key : Delete(key)
    \/ _dictClear

DictSpec == DictInit /\ [][DictNext]_dictVars

-----------------------------------------------------------------------------
(* Iteration from the start, the user deleting the entries in gone as they *)
(* are returned.                                                           *)
Visit(st, gone) ==
    LET next == dictNext(st.ht, st.iter)
    IN  IF ~next.some THEN st
        ELSE [iter |-> next.iter, seen |-> Append(st.seen, next.entry),
              ht |-> IF next.entry.key \in gone THEN dictDelete(st.ht, next.entry.key) ELSE st.ht]
Visited(gone) ==
    LET after[i \in 0 .. ht.used + 1] ==
            IF i = 0 THEN [iter |-> NewIterator, seen |-> <<>>, ht |-> ht]
            ELSE Visit(after[i - 1], gone)
    IN  after[ht.used + 1].seen

(* Whatever was added, replaced and deleted in whatever order, through     *)
(* collisions and growth, the table is the map: every key is found with    *)
(* its last value and no other is, used counts them, and an iteration sees *)
(* every entry once, even if entries are deleted as they are returned.     *)
DictIsMap ==
    /\ \A key \in Key : dictFind(ht, key) = IF key \in DOMAIN map THEN {map[key]} ELSE {}
    /\ ht.used = Cardinality(DOMAIN map) /\ (map = <<>> \/ ht.used <= ht.size)
    /\ \A gone \in {{}, DOMAIN map} :
          LET seen == Visited(gone)
          IN  /\ Len(seen) = Cardinality(DOMAIN map)
              /\ ToSet(seen) = {Entry(key, map[key]) : key \in DOMAIN map}
=============================================================================
