----------------------------- MODULE ConcurrentBiMap -----------------------------
(***************************************************************************)
(* pkg/base/datastructures/bimap: a MutableBiMap (two hash maps) behind the *)
(* RWMutex of ConcurrentBiMap, used by several goroutines.                 *)
(*                                                                         *)
(* A method is the steps between taking and releasing the mutex; each call *)
(* that changes one of the two hash maps is a step of its own, so whatever *)
(* the mutex fails to exclude interleaves.  TryPut's Get of the key it     *)
(* evicts is one step with the Remove, which under one mutex makes no      *)
(* difference: nobody else writes between the two.  sync.RWMutex is        *)
(* modelled from its use: a writer announces itself, which stops new       *)
(* readers, and enters when the readers that were there are gone.          *)
(*                                                                         *)
(* Reverse returns a wrapper with a mutex of its own around the same two   *)
(* hash maps, swapped.  View[t] is the wrapper that goroutine t uses.      *)
(***************************************************************************)
EXTENDS Naturals, FiniteSets

CONSTANTS
    Threads,        \* the goroutines
    Keys, Values,
    None,           \* no entry
    View,           \* [Threads -> Views], the wrapper a goroutine was handed
    NestedReaders   \* the goroutines that call Get from the body of a range over Iter

VARIABLES
    maps,           \* the hash maps: "forward" by key, "reverse" by value
    mu,             \* the mutex of each wrapper
    pc,             \* where each goroutine is
    op              \* its current call: arguments and locals

vars == <<maps, mu, pc, op>>

Views == {"forward", "reverse"}

ASSUME ViewAssumption ==
    /\ View \in [Threads -> Views]
    /\ NestedReaders \subseteq Threads
    /\ None \notin Keys \cup Values \cup Threads

Swap(w) == IF w = "forward" THEN "reverse" ELSE "forward"

KeysOf(w) == IF w = "forward" THEN Keys ELSE Values

Empty(w) == [k \in KeysOf(w) |-> None]

Calls == {"Put", "Remove", "Clear", "Compute", "ComputeIfAbsent",
          "ComputeIfPresent", "Get", "Iter", "Clone"}

ReadCalls == {"Get", "Iter", "Clone"}

Computes == {"Compute", "ComputeIfAbsent", "ComputeIfPresent"}

(* key, val: arguments, val for Compute the answer of the callback;        *)
(* old: what a hash map returned; seen: the keys Iter has yielded; copy and *)
(* mirror: the entries Iter has yielded, or Clone has copied from the first *)
(* and from the second map; before: the entries when a writer entered.     *)
NoCall == [call |-> "none", key |-> None, val |-> None, old |-> None,
           seen |-> {}, copy |-> {}, mirror |-> {}, before |-> {}]

Init ==
    /\ maps = [w \in Views |-> Empty(w)]
    /\ mu = [w \in Views |-> [writer |-> None, readers |-> [t \in Threads |-> 0]]]
    /\ pc = [t \in Threads |-> "idle"]
    /\ op = [t \in Threads |-> NoCall]

Goto(t, label) == pc' = [pc EXCEPT ![t] = label]

(* The entries of a hash map, always written as (key, value). *)
Pairs(w, f) ==
    LET mapped == {k \in KeysOf(w) : f[k] # None}
    IN  {IF w = "forward" THEN <<k, f[k]>> ELSE <<f[k], k>> : k \in mapped}

(***************************************************************************)
(* Calling a method and taking the mutex.                                  *)
(***************************************************************************)
CallMethod(t) ==
    /\ pc[t] = "idle"
    /\ \E c \in Calls, k \in KeysOf(View[t]), v \in KeysOf(Swap(View[t])) :
          /\ op' = [op EXCEPT ![t] =
                [NoCall EXCEPT !.call = c,
                               !.key = IF c \in {"Clear", "Iter", "Clone"} THEN None ELSE k,
                               !.val = IF c = "Put" THEN v ELSE None]]
          /\ Goto(t, IF c \in ReadCalls THEN "rlock" ELSE "lock")
    /\ UNCHANGED <<maps, mu>>

(* RWMutex.Lock announces the writer: later RLock calls wait. *)
Lock(t) ==
    LET w == View[t] IN
    /\ pc[t] = "lock"
    /\ mu[w].writer = None
    /\ mu' = [mu EXCEPT ![w].writer = t]
    /\ Goto(t, "drain")
    /\ UNCHANGED <<maps, op>>

FirstStep(c) ==
    CASE c = "Put" -> "evict"
      [] c = "Remove" -> "remove"
      [] c = "Clear" -> "clear"
      [] c \in Computes -> "lookup"

(* RWMutex.Lock returns once the readers it found are gone. *)
Drain(t) ==
    LET w == View[t] IN
    /\ pc[t] = "drain"
    /\ \A s \in Threads : mu[w].readers[s] = 0
    /\ op' = [op EXCEPT ![t].before = Pairs("forward", maps["forward"])]
    /\ Goto(t, FirstStep(op[t].call))
    /\ UNCHANGED <<maps, mu>>

Unlock(t) ==
    /\ pc[t] = "unlock"
    /\ mu' = [mu EXCEPT ![View[t]].writer = None]
    /\ op' = [op EXCEPT ![t] = NoCall]
    /\ Goto(t, "idle")
    /\ UNCHANGED maps

(* Where a reading method goes once it holds the mutex. *)
FirstRead(c) ==
    CASE c = "Get" -> "get"
      [] c = "Iter" -> "yield"
      [] c = "Clone" -> "copy"

(* Mutated form: the method is not guarded by the read lock. *)
RLock_Missing(t) ==
    /\ pc[t] = "rlock"
    /\ mu' = [mu EXCEPT ![View[t]].readers[t] = @ + 1]
    /\ Goto(t, FirstRead(op[t].call))
    /\ UNCHANGED <<maps, op>>

RLock(t) ==
    LET w == View[t] IN
    /\ pc[t] = "rlock"
    /\ mu[w].writer = None
    /\ mu' = [mu EXCEPT ![w].readers[t] = @ + 1]
    /\ Goto(t, FirstRead(op[t].call))
    /\ UNCHANGED <<maps, op>>

RUnlock(t) ==
    /\ pc[t] = "runlock"
    /\ mu' = [mu EXCEPT ![View[t]].readers[t] = @ - 1]
    /\ op' = [op EXCEPT ![t] = NoCall]
    /\ Goto(t, "idle")
    /\ UNCHANGED maps

(***************************************************************************)
(* TryPut: evict the key that holds the value, store the pair, unlink the  *)
(* value that the key held, link the new one.                              *)
(***************************************************************************)

(* Mutated form: a value that another key holds is not evicted. *)
Evict_Never(t) ==
    /\ pc[t] = "evict"
    /\ Goto(t, "store")
    /\ UNCHANGED <<maps, mu, op>>

(* reverseMap.Get and internalMap.Remove *)
Evict(t) ==
    LET w == View[t]
        existingKey == maps[Swap(w)][op[t].val]
    IN  /\ pc[t] = "evict"
        /\ maps' = IF existingKey = None THEN maps
                   ELSE [maps EXCEPT ![w][existingKey] = None]
        /\ Goto(t, "store")
        /\ UNCHANGED <<mu, op>>

Store(t) ==
    LET w == View[t]
        oldValue == maps[w][op[t].key]
    IN  /\ pc[t] = "store"
        /\ maps' = [maps EXCEPT ![w][op[t].key] = op[t].val]
        /\ op' = [op EXCEPT ![t].old = oldValue]
        /\ Goto(t, IF oldValue = None THEN "link" ELSE "unlink")
        /\ UNCHANGED mu

(* Shared by TryPut and TryRemove: the reverse entry of the value that the *)
(* key no longer has goes.  op.val is None exactly when nothing is stored. *)
Unlink(t) ==
    /\ pc[t] = "unlink"
    /\ maps' = [maps EXCEPT ![Swap(View[t])][op[t].old] = None]
    /\ Goto(t, IF op[t].val = None THEN "unlock" ELSE "link")
    /\ UNCHANGED <<mu, op>>

Link(t) ==
    /\ pc[t] = "link"
    /\ maps' = [maps EXCEPT ![Swap(View[t])][op[t].val] = op[t].key]
    /\ Goto(t, "unlock")
    /\ UNCHANGED <<mu, op>>

(***************************************************************************)
(* TryRemove and Clear.                                                    *)
(***************************************************************************)
Remove(t) ==
    LET w == View[t]
        r == maps[w][op[t].key]
    IN  /\ pc[t] = "remove"
        /\ maps' = [maps EXCEPT ![w][op[t].key] = None]
        /\ op' = [op EXCEPT ![t].old = r]
        /\ Goto(t, IF r = None THEN "unlock" ELSE "unlink")
        /\ UNCHANGED mu

(* Clear is internalMap.Clear followed by reverseMap.Clear. *)
Clear(t) ==
    \/ /\ pc[t] = "clear"
       /\ maps' = [maps EXCEPT ![View[t]] = Empty(View[t])]
       /\ Goto(t, "clearReverse")
       /\ UNCHANGED <<mu, op>>
    \/ /\ pc[t] = "clearReverse"
       /\ maps' = [maps EXCEPT ![Swap(View[t])] = Empty(Swap(View[t]))]
       /\ Goto(t, "unlock")
       /\ UNCHANGED <<mu, op>>

(***************************************************************************)
(* Compute, ComputeIfAbsent, ComputeIfPresent.                             *)
(***************************************************************************)
Lookup(t) ==
    LET oldValue == maps[View[t]][op[t].key]
        skip == \/ op[t].call = "ComputeIfAbsent" /\ oldValue # None
                \/ op[t].call = "ComputeIfPresent" /\ oldValue = None
    IN  /\ pc[t] = "lookup"
        /\ op' = [op EXCEPT ![t].old = oldValue]
        /\ Goto(t, IF skip THEN "unlock" ELSE "callback")
        /\ UNCHANGED <<maps, mu>>

(* Mutated form: the mutex is released while the callback runs and is not  *)
(* taken again.                                                            *)
Callback_Unlocked(t) ==
    /\ pc[t] = "callback"
    /\ \E v \in KeysOf(Swap(View[t])) :
          /\ op' = [op EXCEPT ![t].val = v]
          /\ Goto(t, "evict")
    /\ mu' = [mu EXCEPT ![View[t]].writer = None]
    /\ UNCHANGED maps

(* The caller's function answers with a value and whether to store it; not *)
(* storing removes the key, except in ComputeIfAbsent.                     *)
Callback(t) ==
    /\ pc[t] = "callback"
    /\ \/ \E v \in KeysOf(Swap(View[t])) :
             /\ op' = [op EXCEPT ![t].val = v]
             /\ Goto(t, "evict")
       \/ /\ Goto(t, IF op[t].call = "ComputeIfAbsent" THEN "unlock" ELSE "remove")
          /\ UNCHANGED op
    /\ UNCHANGED <<maps, mu>>

(***************************************************************************)
(* Readers.                                                                *)
(***************************************************************************)
Get(t) ==
    /\ pc[t] = "get"
    /\ op' = [op EXCEPT ![t].old = maps[View[t]][op[t].key]]
    /\ Goto(t, "runlock")
    /\ UNCHANGED <<maps, mu>>

(* One turn of the range over Iter, or its end: no entry is left, or the   *)
(* body broke out of the loop.                                             *)
Yield(t) ==
    LET w == View[t] IN
    /\ pc[t] = "yield"
    /\ \/ \E k \in KeysOf(w) \ op[t].seen :
             /\ maps[w][k] # None
             /\ op' = [op EXCEPT ![t].seen = @ \cup {k},
                                 ![t].copy = @ \cup Pairs(w, [Empty(w) EXCEPT ![k] = maps[w][k]])]
             /\ Goto(t, IF t \in NestedReaders THEN "nestedRLock" ELSE "yield")
       \/ Goto(t, "runlock") /\ UNCHANGED op
    /\ UNCHANGED <<maps, mu>>

(* The body of the loop calls Get: a second RLock of the same goroutine.   *)
NestedGet(t) ==
    LET w == View[t] IN
    \/ /\ pc[t] = "nestedRLock"
       /\ mu[w].writer = None
       /\ mu' = [mu EXCEPT ![w].readers[t] = @ + 1]
       /\ Goto(t, "nestedRUnlock")
       /\ UNCHANGED <<maps, op>>
    \/ /\ pc[t] = "nestedRUnlock"
       /\ mu' = [mu EXCEPT ![w].readers[t] = @ - 1]
       /\ Goto(t, "yield")
       /\ UNCHANGED <<maps, op>>

(* Clone copies internalMap and then reverseMap.                *)
Clone(t) ==
    \/ /\ pc[t] = "copy"
       /\ op' = [op EXCEPT ![t].copy = Pairs(View[t], maps[View[t]])]
       /\ Goto(t, "copyReverse")
       /\ UNCHANGED <<maps, mu>>
    \/ /\ pc[t] = "copyReverse"
       /\ op' = [op EXCEPT ![t].mirror = Pairs(Swap(View[t]), maps[Swap(View[t])])]
       /\ Goto(t, "runlock")
       /\ UNCHANGED <<maps, mu>>

(* The steps that wait for nobody but the readers a writer found; Acquire  *)
(* is the part of a call that competes for the mutex.                      *)
Work(t) ==
    \/ Drain(t) \/ Unlock(t) \/ RUnlock(t)
    \/ Evict(t) \/ Store(t) \/ Unlink(t) \/ Link(t) \/ Remove(t) \/ Clear(t)
    \/ Lookup(t) \/ Callback(t)
    \/ Get(t) \/ Yield(t) \/ Clone(t)

Acquire(t) == Lock(t) \/ RLock(t) \/ NestedGet(t)

Next == \E t \in Threads : CallMethod(t) \/ Acquire(t) \/ Work(t)

Spec == Init /\ [][Next]_vars

(* A goroutine inside a method keeps running, and the mutex starves nobody: *)
(* Unlock lets the waiting readers in before the next writer, and Mutex     *)
(* hands over to a writer that waited for long.                             *)
FairSpec ==
    /\ Spec
    /\ \A t \in Threads : WF_vars(Work(t)) /\ SF_vars(Acquire(t))

----------------------------------------------------------------------------------
(***************************************************************************)
(* Properties.                                                             *)
(***************************************************************************)
WriteLabels == {"evict", "store", "unlink", "link", "remove", "clear", "clearReverse"}

ReadLabels == {"lookup", "get", "yield", "copy", "copyReverse"}

Labels ==
    WriteLabels \cup ReadLabels \cup
    {"idle", "lock", "drain", "unlock", "rlock", "runlock", "callback",
     "nestedRLock", "nestedRUnlock"}

(* The variables have their types; a goroutine holds a mutex for reading at *)
(* most twice, the second time from the body of its own loop               *)
(* (concurrent.go: every RLock has its deferred RUnlock).                  *)
TypeOK ==
    /\ maps.forward \in [Keys -> Values \cup {None}]
    /\ maps.reverse \in [Values -> Keys \cup {None}]
    /\ \A w \in Views :
          /\ mu[w].writer \in Threads \cup {None}
          /\ mu[w].readers \in [Threads -> 0..2]
    /\ pc \in [Threads -> Labels]
    /\ \A t \in Threads : op[t].call \in Calls \cup {"none"}

(* The two hash maps are each other's inverse. *)
Inverse == Pairs("forward", maps["forward"]) = Pairs("reverse", maps["reverse"])

Quiet == \A t \in Threads : pc[t] \in {"idle", "lock", "drain", "rlock"}

(* When no method is running the two maps hold the same entries and no     *)
(* value is held by two keys, whatever the interleaving that led here      *)
(* (mutable.go: "both keys and values are unique"; concurrent.go: Reverse  *)
(* is a thread-safe view).                                                 *)
Bijective == Quiet => Inverse

(* Readers see one single state while others write: a clone is itself a    *)
(* bimap, the copy of the forward map and the later copy of the reverse    *)
(* map hold the same entries; and what a loop over Iter has seen so far is *)
(* still in the map (Clone and Iter, concurrent.go, which hold the read    *)
(* lock from the first access to the last).                                *)
ReadersSeeOneState ==
    \A t \in Threads :
       /\ pc[t] = "runlock" /\ op[t].call = "Clone" => op[t].copy = op[t].mirror
       /\ op[t].call = "Iter" /\ pc[t] # "idle" =>
             op[t].copy \subseteq Pairs("forward", maps["forward"])

(* Every call returns (concurrent.go; map.go: all methods are safe for     *)
(* concurrent use by multiple goroutines).                                 *)
CallsReturn == \A t \in Threads : pc[t] # "idle" ~> pc[t] = "idle"

(* What other goroutines can observe: the entries, or those from before    *)
(* the call that is changing them.                                         *)
Changing(t) == pc[t] \in WriteLabels \cup {"lookup", "callback", "unlock"}

Observable ==
    IF \E t \in Threads : Changing(t)
    THEN (op[CHOOSE t \in Threads : Changing(t)]).before
    ELSE Pairs("forward", maps["forward"])

Abstract == INSTANCE BiMap WITH entries <- Observable

(* Put, Remove, Clear and the three Compute methods are indivisible: to    *)
(* everyone else each takes effect at once, when it unlocks, with the      *)
(* effect BiMap gives it (concurrent.go; "atomically computes").           *)
ImplementsBiMap == Abstract!Spec

==================================================================================
