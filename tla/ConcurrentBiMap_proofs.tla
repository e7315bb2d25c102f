------------------------- MODULE ConcurrentBiMap_proofs -------------------------
(***************************************************************************)
(* Proofs about ConcurrentBiMap: when all goroutines use the same wrapper, *)
(* the mutex keeps the two hash maps each other's inverse between calls,   *)
(* readers see one state, and every writing method is one indivisible step *)
(* of BiMap, for any number of goroutines, keys and values.                *)
(*                                                                         *)
(* The argument has two halves.  The first is about data only: what each   *)
(* access of a hash map does to the relation between the two maps and the  *)
(* entries from before the call (the lemmas ...Data).  The second is about *)
(* the mutex: one writer and no reader, or readers only (Exclusion), so    *)
(* that a step of one goroutine disturbs nobody else (WriterStep and       *)
(* ReaderStep).                                                            *)
(***************************************************************************)
EXTENDS ConcurrentBiMap, TLAPS

(* All goroutines use the wrapper of the same call of NewConcurrentBiMap or *)
(* of Reverse.  A wrapper and its Reverse have two mutexes for the same     *)
(* maps, and nothing below holds for both together.                        *)
OneView == \A s, t \in Threads : View[s] = View[t]

(* The entry of key k and value v of wrapper w, written as (key, value). *)
Entry(w, k, v) == IF w = "forward" THEN <<k, v>> ELSE <<v, k>>

Map(w) == [KeysOf(w) -> KeysOf(Swap(w)) \cup {None}]

ChangingLabels == WriteLabels \cup {"lookup", "callback", "unlock"}

ReadingLabels == {"get", "yield", "copy", "copyReverse", "runlock", "nestedRLock", "nestedRUnlock"}

Reading(t) == pc[t] \in ReadingLabels

(* f is the first map of the wrapper, r the second. *)
Linked(w, f, r) == \A k \in KeysOf(w), v \in KeysOf(Swap(w)) : (f[k] = v) <=> (r[v] = k)

OneToOne(w, b) ==
    \A k, l \in KeysOf(w), u, v \in KeysOf(Swap(w)) :
       Entry(w, k, u) \in b /\ Entry(w, l, v) \in b => (k = l <=> u = v)

(* The first map holds the entries b; so does the second. *)
FirstIs(w, f, b) == \A k \in KeysOf(w), v \in KeysOf(Swap(w)) : (f[k] = v) <=> (Entry(w, k, v) \in b)

SecondIs(w, r, b) == \A k \in KeysOf(w), v \in KeysOf(Swap(w)) : (r[v] = k) <=> (Entry(w, k, v) \in b)

(* The first map holds b with the pair (key, val) put; with the key removed *)
(* when val is None.                                                       *)
FirstPut(w, f, b, key, val) ==
    \A k \in KeysOf(w), v \in KeysOf(Swap(w)) :
       (f[k] = v) <=> \/ k = key /\ v = val
                      \/ k # key /\ v # val /\ Entry(w, k, v) \in b

(* What a method that has done its work has made of the entries b. *)
Outcome(w, f, b) ==
    \/ FirstIs(w, f, b)
    \/ \E k \in KeysOf(w), v \in KeysOf(Swap(w)) \cup {None} : FirstPut(w, f, b, k, v)
    \/ f = Empty(w)

(***************************************************************************)
(* Where a writer is, what its call has done to the two maps so far.       *)
(***************************************************************************)
Content(w, label, o, f, r) ==
    LET b == o.before IN
    /\ OneToOne(w, b)
    /\ label \in {"evict", "store", "link"} => o.key \in KeysOf(w) /\ o.val \in KeysOf(Swap(w))
    /\ label \in {"lookup", "callback", "remove"} => o.key \in KeysOf(w) /\ o.val = None
    /\ label \in {"lookup", "callback", "remove", "evict", "clear"} => FirstIs(w, f, b) /\ SecondIs(w, r, b)
    /\ label = "store" =>
          /\ \A k \in KeysOf(w), v \in KeysOf(Swap(w)) : (f[k] = v) <=> (v # o.val /\ Entry(w, k, v) \in b)
          /\ SecondIs(w, r, b)
    /\ label = "unlink" =>
          /\ o.key \in KeysOf(w) /\ o.val \in KeysOf(Swap(w)) \cup {None}
          /\ o.old \in KeysOf(Swap(w)) /\ o.old # o.val
          /\ Entry(w, o.key, o.old) \in b
          /\ FirstPut(w, f, b, o.key, o.val)
          /\ SecondIs(w, r, b)
    /\ label = "link" =>
          /\ FirstPut(w, f, b, o.key, o.val)
          /\ \A k \in KeysOf(w), v \in KeysOf(Swap(w)) :
                v # o.val => ((r[v] = k) <=> (k # o.key /\ Entry(w, k, v) \in b))
    /\ label = "clearReverse" => f = Empty(w)
    /\ label = "unlock" => Linked(w, f, r) /\ Outcome(w, f, b)

---------------------------------------------------------------------------------
(***************************************************************************)
(* The accesses of the hash maps.                                          *)
(***************************************************************************)
LEMMA Apart == \A w \in Views : /\ Swap(w) \in Views /\ Swap(w) # w /\ Swap(Swap(w)) = w
                                /\ None \notin KeysOf(w)
  BY ViewAssumption DEF Views, Swap, KeysOf

LEMMA EvictData ==
    ASSUME NEW w \in Views, NEW f \in Map(w), NEW r \in Map(Swap(w)), NEW o,
           Content(w, "evict", o, f, r)
    PROVE  LET g == IF r[o.val] = None THEN f ELSE [f EXCEPT ![r[o.val]] = None]
           IN  g \in Map(w) /\ Content(w, "store", o, g, r)
  <1> DEFINE K == KeysOf(w)
             V == KeysOf(Swap(w))
             g == IF r[o.val] = None THEN f ELSE [f EXCEPT ![r[o.val]] = None]
  <1>1. /\ OneToOne(w, o.before) /\ o.key \in K /\ o.val \in V
        /\ FirstIs(w, f, o.before) /\ SecondIs(w, r, o.before)
    BY DEF Content
  <1>2. None \notin K /\ None \notin V /\ f \in [K -> V \cup {None}] /\ r \in [V -> K \cup {None}]
    BY Apart DEF Map
  <1> HIDE DEF K, V
  <1>3. g \in [K -> V \cup {None}]
    BY <1>1, <1>2
  <1>4. ASSUME NEW k \in K, NEW v \in V
        PROVE  (g[k] = v) <=> (v # o.val /\ Entry(w, k, v) \in o.before)
    <2>1. /\ (f[k] = v) <=> (Entry(w, k, v) \in o.before)
          /\ (r[v] = k) <=> (Entry(w, k, v) \in o.before)
          /\ (f[k] = o.val) <=> (r[o.val] = k)
      BY <1>1, <1>4 DEF FirstIs, SecondIs, K, V
    <2> QED
      BY <1>1, <1>2, <2>1
  <1> QED
    BY <1>1, <1>3, <1>4 DEF Content, Map, K, V

LEMMA StoreData ==
    ASSUME NEW w \in Views, NEW f \in Map(w), NEW r \in Map(Swap(w)), NEW o, NEW p,
           Content(w, "store", o, f, r),
           p.key = o.key, p.val = o.val, p.before = o.before, p.old = f[o.key]
    PROVE  LET g == [f EXCEPT ![o.key] = o.val]
           IN  /\ g \in Map(w)
               /\ Content(w, IF f[o.key] = None THEN "link" ELSE "unlink", p, g, r)
  <1> DEFINE K == KeysOf(w)
             V == KeysOf(Swap(w))
             g == [f EXCEPT ![o.key] = o.val]
  <1>1. /\ OneToOne(w, o.before) /\ o.key \in K /\ o.val \in V
        /\ \A k \in K, v \in V : (f[k] = v) <=> (v # o.val /\ Entry(w, k, v) \in o.before)
        /\ SecondIs(w, r, o.before)
    BY DEF Content
  <1>2. None \notin K /\ None \notin V /\ f \in [K -> V \cup {None}] /\ r \in [V -> K \cup {None}]
    BY Apart DEF Map
  <1> HIDE DEF K, V
  <1>3. g \in [K -> V \cup {None}]
    BY <1>1, <1>2
  <1>4. FirstPut(w, g, o.before, o.key, o.val)
    <2> SUFFICES ASSUME NEW k \in K, NEW v \in V
                 PROVE  (g[k] = v) <=> (k = o.key /\ v = o.val) \/ (k # o.key /\ v # o.val /\ Entry(w, k, v) \in o.before)
      BY DEF FirstPut, K, V
    <2> QED
      BY <1>1, <1>2
  <1>5. CASE f[o.key] = None
    <2>1. ASSUME NEW k \in K, NEW v \in V, v # o.val
          PROVE  (r[v] = k) <=> (k # o.key /\ Entry(w, k, v) \in o.before)
      <3>1. (r[v] = k) <=> (Entry(w, k, v) \in o.before)
        BY <1>1 DEF SecondIs, K, V
      <3>2. Entry(w, o.key, v) \notin o.before
        BY <1>1, <1>2, <1>5, <2>1
      <3> QED
        BY <3>1, <3>2
    <2> QED
      BY <1>1, <1>3, <1>4, <1>5, <2>1 DEF Content, Map, K, V
  <1>6. CASE f[o.key] # None
    <2>1. f[o.key] \in V /\ f[o.key] # o.val /\ Entry(w, o.key, f[o.key]) \in o.before
      BY <1>1, <1>2, <1>6
    <2> QED
      BY <1>1, <1>3, <1>4, <1>6, <2>1 DEF Content, Map, K, V
  <1> QED
    BY <1>5, <1>6

LEMMA UnlinkData ==
    ASSUME NEW w \in Views, NEW f \in Map(w), NEW r \in Map(Swap(w)), NEW o,
           Content(w, "unlink", o, f, r)
    PROVE  LET s == [r EXCEPT ![o.old] = None]
           IN  /\ s \in Map(Swap(w))
               /\ Content(w, IF o.val = None THEN "unlock" ELSE "link", o, f, s)
  <1> DEFINE K == KeysOf(w)
             V == KeysOf(Swap(w))
             s == [r EXCEPT ![o.old] = None]
  <1>1. /\ OneToOne(w, o.before) /\ o.key \in K /\ o.val \in V \cup {None}
        /\ o.old \in V /\ o.old # o.val
        /\ Entry(w, o.key, o.old) \in o.before
        /\ FirstPut(w, f, o.before, o.key, o.val) /\ SecondIs(w, r, o.before)
    BY DEF Content
  <1>2. None \notin K /\ None \notin V /\ f \in [K -> V \cup {None}] /\ r \in [V -> K \cup {None}]
    BY Apart DEF Map
  <1> HIDE DEF K, V
  <1>3. s \in [V -> K \cup {None}]
    BY <1>1, <1>2
  <1>4. ASSUME NEW k \in K, NEW v \in V
        PROVE  (s[v] = k) <=> (k # o.key /\ Entry(w, k, v) \in o.before)
    <2>1. (r[v] = k) <=> (Entry(w, k, v) \in o.before)
      BY <1>1 DEF SecondIs, K, V
    <2>2. Entry(w, k, v) \in o.before => (k = o.key <=> v = o.old)
      BY <1>1 DEF OneToOne, K, V
    <2> QED
      BY <1>1, <1>2, <2>1, <2>2
  <1>5. CASE o.val = None
    <2>1. Linked(w, f, s)
      <3> SUFFICES ASSUME NEW k \in K, NEW v \in V PROVE (f[k] = v) <=> (s[v] = k)
        BY DEF Linked, K, V
      <3>1. (f[k] = v) <=> (k # o.key /\ Entry(w, k, v) \in o.before)
        BY <1>1, <1>2, <1>5 DEF FirstPut, K, V
      <3> QED
        BY <1>4, <3>1
    <2>2. Outcome(w, f, o.before)
      BY <1>1 DEF Outcome, K, V
    <2> QED
      BY <1>1, <1>3, <1>5, <2>1, <2>2 DEF Content, Map, K, V
  <1>6. CASE o.val # None
    BY <1>1, <1>3, <1>4, <1>6 DEF Content, Map, K, V
  <1> QED
    BY <1>5, <1>6

LEMMA LinkData ==
    ASSUME NEW w \in Views, NEW f \in Map(w), NEW r \in Map(Swap(w)), NEW o,
           Content(w, "link", o, f, r)
    PROVE  LET s == [r EXCEPT ![o.val] = o.key]
           IN  s \in Map(Swap(w)) /\ Content(w, "unlock", o, f, s)
  <1> DEFINE K == KeysOf(w)
             V == KeysOf(Swap(w))
             s == [r EXCEPT ![o.val] = o.key]
  <1>1. /\ OneToOne(w, o.before) /\ o.key \in K /\ o.val \in V
        /\ FirstPut(w, f, o.before, o.key, o.val)
        /\ \A k \in K, v \in V : v # o.val => ((r[v] = k) <=> (k # o.key /\ Entry(w, k, v) \in o.before))
    BY DEF Content
  <1>2. None \notin K /\ None \notin V /\ f \in [K -> V \cup {None}] /\ r \in [V -> K \cup {None}]
    BY Apart DEF Map
  <1> HIDE DEF K, V
  <1>3. s \in [V -> K \cup {None}]
    BY <1>1, <1>2
  <1>4. Linked(w, f, s)
    <2> SUFFICES ASSUME NEW k \in K, NEW v \in V PROVE (f[k] = v) <=> (s[v] = k)
      BY DEF Linked, K, V
    <2>1. (f[k] = v) <=> \/ k = o.key /\ v = o.val
                         \/ k # o.key /\ v # o.val /\ Entry(w, k, v) \in o.before
      BY <1>1 DEF FirstPut, K, V
    <2> QED
      BY <1>1, <1>2, <2>1
  <1>5. Outcome(w, f, o.before)
    BY <1>1 DEF Outcome, K, V
  <1> QED
    BY <1>1, <1>3, <1>4, <1>5, Apart DEF Content, Map, K, V

LEMMA RemoveData ==
    ASSUME NEW w \in Views, NEW f \in Map(w), NEW r \in Map(Swap(w)), NEW o, NEW p,
           Content(w, "remove", o, f, r),
           p.key = o.key, p.val = o.val, p.before = o.before, p.old = f[o.key]
    PROVE  LET g == [f EXCEPT ![o.key] = None]
           IN  /\ g \in Map(w)
               /\ Content(w, IF f[o.key] = None THEN "unlock" ELSE "unlink", p, g, r)
  <1> DEFINE K == KeysOf(w)
             V == KeysOf(Swap(w))
             g == [f EXCEPT ![o.key] = None]
  <1>1. /\ OneToOne(w, o.before) /\ o.key \in K /\ o.val = None
        /\ FirstIs(w, f, o.before) /\ SecondIs(w, r, o.before)
    BY DEF Content
  <1>2. None \notin K /\ None \notin V /\ f \in [K -> V \cup {None}] /\ r \in [V -> K \cup {None}]
    BY Apart DEF Map
  <1> HIDE DEF K, V
  <1>3. g \in [K -> V \cup {None}]
    BY <1>1, <1>2
  <1>4. FirstPut(w, g, o.before, o.key, o.val)
    <2> SUFFICES ASSUME NEW k \in K, NEW v \in V
                 PROVE  (g[k] = v) <=> (k = o.key /\ v = o.val) \/ (k # o.key /\ v # o.val /\ Entry(w, k, v) \in o.before)
      BY DEF FirstPut, K, V
    <2>1. (f[k] = v) <=> (Entry(w, k, v) \in o.before)
      BY <1>1 DEF FirstIs, K, V
    <2> QED
      BY <1>1, <1>2, <2>1
  <1>5. CASE f[o.key] = None
    <2>1. Linked(w, g, r)
      <3> SUFFICES ASSUME NEW k \in K, NEW v \in V PROVE (g[k] = v) <=> (r[v] = k)
        BY DEF Linked, K, V
      <3>1. /\ (f[k] = v) <=> (Entry(w, k, v) \in o.before)
            /\ (r[v] = k) <=> (Entry(w, k, v) \in o.before)
        BY <1>1 DEF FirstIs, SecondIs, K, V
      <3> QED
        BY <1>1, <1>2, <1>5, <3>1
    <2>2. Outcome(w, g, o.before)
      BY <1>1, <1>4 DEF Outcome, K, V
    <2> QED
      BY <1>1, <1>3, <1>5, <2>1, <2>2 DEF Content, Map, K, V
  <1>6. CASE f[o.key] # None
    <2>1. f[o.key] \in V /\ f[o.key] # o.val
      BY <1>1, <1>2, <1>6
    <2>2. Entry(w, o.key, f[o.key]) \in o.before
      BY <1>1, <2>1 DEF FirstIs, K, V
    <2> QED
      BY <1>1, <1>3, <1>4, <1>6, <2>1, <2>2 DEF Content, Map, K, V
  <1> QED
    BY <1>5, <1>6

LEMMA ClearData ==
    ASSUME NEW w \in Views, NEW f \in Map(w), NEW r \in Map(Swap(w)), NEW o
    PROVE  /\ Empty(w) \in Map(w)
           /\ Content(w, "clear", o, f, r) => Content(w, "clearReverse", o, Empty(w), r)
           /\ Content(w, "clearReverse", o, f, r) => Content(w, "unlock", o, f, Empty(Swap(w)))
  <1>1. Empty(w) \in Map(w) /\ Empty(Swap(w)) \in Map(Swap(w))
    BY Apart DEF Empty, Map
  <1>2. Content(w, "clear", o, f, r) => Content(w, "clearReverse", o, Empty(w), r)
    BY DEF Content
  <1>3. Linked(w, Empty(w), Empty(Swap(w)))
    BY Apart DEF Linked, Empty
  <1>4. Content(w, "clearReverse", o, f, r) => Content(w, "unlock", o, f, Empty(Swap(w)))
    BY <1>3 DEF Content, Outcome
  <1> QED
    BY <1>1, <1>2, <1>4

---------------------------------------------------------------------------------
(***************************************************************************)
(* The inductive invariant.                                                *)
(***************************************************************************)
CallRecord ==
    [call   : Calls \cup {"none"},
     key    : Keys \cup Values \cup {None},
     val    : Keys \cup Values \cup {None},
     old    : Keys \cup Values \cup {None},
     seen   : SUBSET (Keys \cup Values),
     copy   : SUBSET (Keys \X Values),
     mirror : SUBSET (Keys \X Values),
     before : SUBSET (Keys \X Values)]

MapTypes == DOMAIN maps = Views /\ \A w \in Views : maps[w] \in Map(w)

MutexTypes ==
    /\ DOMAIN mu = Views
    /\ \A w \in Views : mu[w] \in [writer : Threads \cup {None}, readers : [Threads -> 0..2]]

CallTypes ==
    /\ pc \in [Threads -> Labels]
    /\ op \in [Threads -> CallRecord]

(* How often a goroutine holds the mutex of its wrapper for reading. *)
Holds(label) == IF label = "nestedRUnlock" THEN 2 ELSE IF label \in ReadingLabels THEN 1 ELSE 0

(* Who holds the mutex is where it says it is, and a writer that has       *)
(* entered is alone.                                                       *)
Exclusion ==
    \A t \in Threads :
       /\ (mu[View[t]].writer = t) <=> (pc[t] \in ChangingLabels \cup {"drain"})
       /\ mu[View[t]].readers[t] = Holds(pc[t])
       /\ mu[Swap(View[t])].readers[t] = 0
       /\ pc[t] \in ChangingLabels => \A s \in Threads : pc[s] \notin ReadingLabels

(* The call o of a goroutine is one that gets to this label. *)
Calling(t, label, o) ==
    /\ label # "idle" => o.call \in Calls
    /\ label \in ChangingLabels \cup {"lock", "drain"} => o.call \notin ReadCalls
    /\ label \in ReadingLabels \cup {"rlock"} => o.call \in ReadCalls
    /\ label \in {"lock", "drain"} =>
          /\ o.call # "Clear" => o.key \in KeysOf(View[t])
          /\ o.call = "Put" => o.val \in KeysOf(Swap(View[t]))
          /\ o.call # "Put" => o.val = None
    /\ label \in {"rlock", "get"} /\ o.call = "Get" => o.key \in KeysOf(View[t])
    /\ label = "get" => o.call = "Get"
    /\ label \in {"yield", "nestedRLock", "nestedRUnlock"} => o.call = "Iter"
    /\ label \in {"copy", "copyReverse"} => o.call = "Clone"
    /\ label = "rlock" => o.copy = {}

(* What a reader has read so far is in the maps, and a clone is one state. *)
Seen(t, label, o) ==
    /\ label \in ReadingLabels /\ o.call = "Iter" => o.copy \subseteq Pairs("forward", maps["forward"])
    /\ label = "copyReverse" => o.copy = Pairs(View[t], maps[View[t]])
    /\ label = "runlock" /\ o.call = "Clone" => o.copy = o.mirror

Readers == \A t \in Threads : Calling(t, pc[t], op[t]) /\ Seen(t, pc[t], op[t])

Writers ==
    \A t \in Threads :
       pc[t] \in ChangingLabels =>
          Content(View[t], pc[t], op[t], maps[View[t]], maps[Swap(View[t])])

Undisturbed == (\A t \in Threads : pc[t] \notin ChangingLabels) => Inverse

IInv ==
    /\ MapTypes /\ MutexTypes /\ CallTypes
    /\ Exclusion /\ Readers /\ Writers /\ Undisturbed

---------------------------------------------------------------------------------
(***************************************************************************)
(* The entries of a map.                                                   *)
(***************************************************************************)
LEMMA EntryShape ==
    ASSUME NEW w \in Views
    PROVE  /\ \A k \in KeysOf(w), v \in KeysOf(Swap(w)) : Entry(w, k, v) \in Keys \X Values
           /\ \A e \in Keys \X Values : \E k \in KeysOf(w), v \in KeysOf(Swap(w)) : e = Entry(w, k, v)
           /\ \A k, l \in KeysOf(w), u, v \in KeysOf(Swap(w)) :
                 Entry(w, k, u) = Entry(w, l, v) => k = l /\ u = v
           /\ \A k \in KeysOf(w), v \in KeysOf(Swap(w)) : Entry(w, k, v) = Entry(Swap(w), v, k)
  <1>1. CASE w = "forward"
    BY <1>1 DEF Entry, KeysOf, Swap
  <1>2. CASE w = "reverse"
    BY <1>2 DEF Entry, KeysOf, Swap
  <1> QED
    BY <1>1, <1>2 DEF Views

LEMMA PairsMember ==
    ASSUME NEW w \in Views, NEW f \in Map(w)
    PROVE  /\ Pairs(w, f) \subseteq Keys \X Values
           /\ \A k \in KeysOf(w), v \in KeysOf(Swap(w)) : (Entry(w, k, v) \in Pairs(w, f)) <=> (f[k] = v)
  <1>1. Pairs(w, f) = {Entry(w, k, f[k]) : k \in {l \in KeysOf(w) : f[l] # None}}
    BY DEF Pairs, Entry
  <1>2. \A k \in KeysOf(w) : f[k] # None => f[k] \in KeysOf(Swap(w))
    BY DEF Map
  <1>3. Pairs(w, f) \subseteq Keys \X Values
    BY <1>1, <1>2, EntryShape
  <1>4. ASSUME NEW k \in KeysOf(w), NEW v \in KeysOf(Swap(w))
        PROVE  (Entry(w, k, v) \in Pairs(w, f)) <=> (f[k] = v)
    <2>1. ASSUME f[k] = v PROVE Entry(w, k, v) \in Pairs(w, f)
      BY <1>1, <2>1, Apart
    <2>2. ASSUME Entry(w, k, v) \in Pairs(w, f) PROVE f[k] = v
      <3>1. PICK l \in KeysOf(w) : f[l] # None /\ Entry(w, k, v) = Entry(w, l, f[l])
        BY <1>1, <2>2
      <3> QED
        BY <1>2, <3>1, EntryShape
    <2> QED
      BY <2>1, <2>2
  <1> QED
    BY <1>3, <1>4

\* Two sets of entries are equal when they agree as seen through one wrapper.
LEMMA SameEntries ==
    ASSUME NEW w \in Views, NEW S \in SUBSET (Keys \X Values), NEW T \in SUBSET (Keys \X Values),
           \A k \in KeysOf(w), v \in KeysOf(Swap(w)) : (Entry(w, k, v) \in S) <=> (Entry(w, k, v) \in T)
    PROVE  S = T
  <1>1. \A e \in Keys \X Values : (e \in S) <=> (e \in T)
    BY EntryShape
  <1> QED
    BY <1>1

LEMMA InverseIsLinked ==
    ASSUME MapTypes, NEW w \in Views
    PROVE  /\ Inverse <=> Linked(w, maps[w], maps[Swap(w)])
           /\ Inverse => Pairs(w, maps[w]) = Pairs("forward", maps["forward"])
  <1>0. "forward" \in Views /\ "reverse" \in Views /\ Swap("forward") = "reverse"
    BY DEF Views, Swap
  <1>1. maps["forward"] \in Map("forward") /\ maps["reverse"] \in Map("reverse")
    BY <1>0 DEF MapTypes
  <1> DEFINE F == Pairs("forward", maps["forward"])
             R == Pairs("reverse", maps["reverse"])
  <1>2. F \in SUBSET (Keys \X Values) /\ R \in SUBSET (Keys \X Values)
    BY <1>0, <1>1, PairsMember
  <1>3. \A k \in KeysOf("forward"), v \in KeysOf("reverse") :
           /\ (Entry("forward", k, v) \in F) <=> (maps["forward"][k] = v)
           /\ (Entry("forward", k, v) \in R) <=> (maps["reverse"][v] = k)
    <2> SUFFICES ASSUME NEW k \in KeysOf("forward"), NEW v \in KeysOf("reverse")
                 PROVE  /\ (Entry("forward", k, v) \in F) <=> (maps["forward"][k] = v)
                        /\ (Entry("forward", k, v) \in R) <=> (maps["reverse"][v] = k)
      OBVIOUS
    <2>1. (Entry("forward", k, v) \in F) <=> (maps["forward"][k] = v)
      BY <1>0, <1>1, PairsMember
    <2>2. Swap("reverse") = "forward"
      BY DEF Swap
    <2>3. Entry("forward", k, v) = Entry("reverse", v, k)
      BY <1>0, EntryShape
    <2>4. (Entry("reverse", v, k) \in R) <=> (maps["reverse"][v] = k)
      BY <1>0, <1>1, <2>2, PairsMember
    <2> QED
      BY <2>1, <2>3, <2>4
  <1> HIDE DEF F, R
  <1>4. (F = R) <=> \A k \in KeysOf("forward"), v \in KeysOf("reverse") :
                       (maps["forward"][k] = v) <=> (maps["reverse"][v] = k)
    <2>1. ASSUME \A k \in KeysOf("forward"), v \in KeysOf("reverse") :
                    (maps["forward"][k] = v) <=> (maps["reverse"][v] = k)
          PROVE  F = R
      BY <1>0, <1>2, <1>3, <2>1, SameEntries
    <2> QED
      BY <1>3, <2>1
  <1>5. Inverse <=> F = R
    BY DEF Inverse, F, R
  <1>6. CASE w = "forward"
    BY <1>0, <1>4, <1>5, <1>6 DEF Linked
  <1>7. CASE w = "reverse"
    <2>1. Swap(w) = "forward"
      BY <1>7 DEF Swap
    <2> QED
      BY <1>0, <1>4, <1>5, <1>7, <2>1 DEF Linked, F, R
  <1> QED
    BY <1>6, <1>7 DEF Views

\* What the maps hold when a writer enters.
LEMMA BeforeEntering ==
    ASSUME MapTypes, Inverse, NEW w \in Views
    PROVE  LET b == Pairs("forward", maps["forward"])
           IN  /\ b \in SUBSET (Keys \X Values)
               /\ FirstIs(w, maps[w], b)
               /\ SecondIs(w, maps[Swap(w)], b)
               /\ OneToOne(w, b)
  <1> DEFINE b == Pairs("forward", maps["forward"])
  <1>1. b = Pairs(w, maps[w]) /\ Linked(w, maps[w], maps[Swap(w)])
    BY InverseIsLinked
  <1>2. maps[w] \in Map(w) /\ maps[Swap(w)] \in Map(Swap(w))
    BY Apart DEF MapTypes
  <1>3. b \in SUBSET (Keys \X Values) /\ FirstIs(w, maps[w], b)
    BY <1>1, <1>2, PairsMember DEF FirstIs
  <1>4. SecondIs(w, maps[Swap(w)], b)
    BY <1>1, <1>3 DEF SecondIs, FirstIs, Linked
  <1> HIDE DEF b
  <1>5. OneToOne(w, b)
    <2> SUFFICES ASSUME NEW k \in KeysOf(w), NEW l \in KeysOf(w),
                        NEW u \in KeysOf(Swap(w)), NEW v \in KeysOf(Swap(w)),
                        Entry(w, k, u) \in b, Entry(w, l, v) \in b
                 PROVE  k = l <=> u = v
      BY DEF OneToOne
    <2>1. maps[w][k] = u /\ maps[w][l] = v
      BY <1>3 DEF FirstIs
    <2>2. maps[Swap(w)][u] = k /\ maps[Swap(w)][v] = l
      BY <1>4 DEF SecondIs
    <2> QED
      BY <2>1, <2>2
  <1> QED
    BY <1>3, <1>4, <1>5 DEF b

---------------------------------------------------------------------------------
(***************************************************************************)
(* One goroutine's step and the others.                                    *)
(***************************************************************************)

\* A step inside a writing method, or the one that enters it once the readers
\* are gone: nobody else has entered.
LEMMA WriterStep ==
    ASSUME OneView, IInv, NEW t \in Threads, NEW label \in ChangingLabels, NEW o \in CallRecord,
           pc[t] \in ChangingLabels \/ (pc[t] = "drain" /\ \A s \in Threads : pc[s] \notin ReadingLabels),
           o.call = op[t].call,
           pc' = [pc EXCEPT ![t] = label], op' = [op EXCEPT ![t] = o], mu' = mu, MapTypes',
           Content(View[t], label, o, maps'[View[t]], maps'[Swap(View[t])])
    PROVE  IInv'
  <1>0. /\ MapTypes /\ MutexTypes /\ CallTypes /\ Exclusion /\ Readers /\ Writers
        /\ View[t] \in Views /\ \A s \in Threads : View[s] = View[t]
    BY ViewAssumption DEF IInv, OneView
  <1>1. /\ pc'[t] = label /\ op'[t] = o
        /\ \A s \in Threads : s # t => pc'[s] = pc[s] /\ op'[s] = op[s]
        /\ label \in Labels /\ pc' \in [Threads -> Labels] /\ op' \in [Threads -> CallRecord]
    BY <1>0 DEF CallTypes, ChangingLabels, Labels, ReadLabels
  <1>2. \A s \in Threads : pc[s] \notin ReadingLabels /\ (s # t => pc[s] \notin ChangingLabels \cup {"drain"})
    <2>1. mu[View[t]].writer = t
      BY <1>0 DEF Exclusion
    <2> QED
      BY <1>0, <2>1 DEF Exclusion
  <1>3. label \notin ReadingLabels /\ label # "drain" /\ label \notin {"idle", "lock", "rlock"}
    BY DEF ChangingLabels, ReadingLabels, WriteLabels
  <1>4. pc[t] \notin ReadingLabels /\ pc[t] # "idle"
    BY <1>2 DEF ChangingLabels, WriteLabels
  <1>5. MutexTypes' /\ CallTypes'
    BY <1>0, <1>1 DEF MutexTypes, CallTypes
  <1>6. Exclusion'
    <2> SUFFICES ASSUME NEW s \in Threads
                 PROVE  /\ (mu[View[s]].writer = s) <=> (pc'[s] \in ChangingLabels \cup {"drain"})
                        /\ mu[View[s]].readers[s] = Holds(pc'[s])
                        /\ mu[Swap(View[s])].readers[s] = 0
                        /\ \A u \in Threads : pc'[u] \notin ReadingLabels
      BY DEF Exclusion
    <2>1. \A u \in Threads : pc'[u] \notin ReadingLabels
      BY <1>1, <1>2, <1>3
    <2>2. Holds(pc'[s]) = 0 /\ Holds(pc[s]) = 0
      BY <1>2, <2>1 DEF Holds, ReadingLabels
    <2>3. CASE s = t
      BY <1>0, <1>1, <2>1, <2>2, <2>3 DEF Exclusion
    <2>4. CASE s # t
      BY <1>0, <1>1, <2>1, <2>2, <2>4 DEF Exclusion
    <2> QED
      BY <2>3, <2>4
  <1>7. Readers'
    <2> SUFFICES ASSUME NEW s \in Threads
                 PROVE  Calling(s, pc'[s], op'[s]) /\ Seen(s, pc[s], op[s])'
      BY DEF Readers, Calling
    <2>1. pc'[s] \notin ReadingLabels
      BY <1>1, <1>2, <1>3
    <2>2. Seen(s, pc[s], op[s])'
      BY <2>1 DEF Seen, ReadingLabels
    <2>3. CASE s = t
      <3>1. op[t].call \in Calls /\ op[t].call \notin ReadCalls
        BY <1>0, <1>4 DEF Readers, Calling
      <3> QED
        BY <1>1, <1>3, <2>2, <2>3, <3>1 DEF Calling, ReadingLabels
    <2>4. CASE s # t
      BY <1>0, <1>1, <2>2, <2>4 DEF Readers
    <2> QED
      BY <2>3, <2>4
  <1>8. Writers'
    <2> SUFFICES ASSUME NEW s \in Threads, pc'[s] \in ChangingLabels
                 PROVE  Content(View[s], pc'[s], op'[s], maps'[View[s]], maps'[Swap(View[s])])
      BY DEF Writers
    <2>1. s = t
      BY <1>1, <1>2
    <2> QED
      BY <1>1, <2>1
  <1>9. Undisturbed'
    BY <1>1 DEF Undisturbed
  <1> QED
    BY <1>5, <1>6, <1>7, <1>8, <1>9 DEF IInv

\* A step of a goroutine that is not inside a writing method, and does not get
\* there, leaves the maps alone; who holds the mutex is shown apart.
LEMMA QuietStep ==
    ASSUME OneView, IInv, NEW t \in Threads, NEW label \in Labels, NEW o \in CallRecord,
           pc[t] \notin ChangingLabels, label \notin ChangingLabels,
           pc' = [pc EXCEPT ![t] = label], op' = [op EXCEPT ![t] = o], maps' = maps,
           MutexTypes', Exclusion', Calling(t, label, o), Seen(t, label, o)
    PROVE  IInv'
  <1>0. MapTypes /\ CallTypes /\ Readers /\ Writers /\ Undisturbed
    BY DEF IInv
  <1>1. /\ pc'[t] = label /\ op'[t] = o
        /\ \A s \in Threads : s # t => pc'[s] = pc[s] /\ op'[s] = op[s]
        /\ pc' \in [Threads -> Labels] /\ op' \in [Threads -> CallRecord]
    BY <1>0 DEF CallTypes
  <1>2. MapTypes'
    BY <1>0 DEF MapTypes
  <1>3. CallTypes'
    BY <1>1 DEF CallTypes
  <1>4. Readers'
    <2> SUFFICES ASSUME NEW s \in Threads
                 PROVE  Calling(s, pc'[s], op'[s]) /\ Seen(s, pc'[s], op'[s])
      BY DEF Readers, Calling, Seen
    <2> QED
      BY <1>0, <1>1 DEF Readers
  <1>5. Writers'
    <2> SUFFICES ASSUME NEW s \in Threads, pc'[s] \in ChangingLabels
                 PROVE  Content(View[s], pc'[s], op'[s], maps[View[s]], maps[Swap(View[s])])
      BY DEF Writers
    <2>1. s # t
      BY <1>1
    <2> QED
      BY <1>0, <1>1, <2>1 DEF Writers
  <1>6. Undisturbed'
    <2>1. Inverse' <=> Inverse
      BY DEF Inverse
    <2>2. (\A s \in Threads : pc'[s] \notin ChangingLabels) => \A s \in Threads : pc[s] \notin ChangingLabels
      BY <1>1
    <2> QED
      BY <1>0, <2>1, <2>2 DEF Undisturbed
  <1> QED
    BY <1>2, <1>3, <1>4, <1>5, <1>6 DEF IInv

\* A reader's access of a map leaves the mutex alone.
LEMMA ReaderStep ==
    ASSUME OneView, IInv, NEW t \in Threads, NEW label \in ReadingLabels, NEW o \in CallRecord,
           pc[t] \in ReadingLabels, pc[t] # "nestedRUnlock", label # "nestedRUnlock",
           pc' = [pc EXCEPT ![t] = label], op' = [op EXCEPT ![t] = o], maps' = maps, mu' = mu,
           Calling(t, label, o), Seen(t, label, o)
    PROVE  IInv'
  <1>0. MutexTypes /\ CallTypes /\ Exclusion
    BY DEF IInv
  <1>1. /\ label \notin ChangingLabels \cup {"drain"} /\ pc[t] \notin ChangingLabels \cup {"drain"}
        /\ label \in Labels
    BY DEF ChangingLabels, WriteLabels, ReadingLabels, Labels, ReadLabels
  <1>2. pc'[t] = label /\ \A s \in Threads : s # t => pc'[s] = pc[s]
    BY <1>0 DEF CallTypes
  <1>3. Exclusion'
    <2> SUFFICES ASSUME NEW s \in Threads
                 PROVE  /\ (mu[View[s]].writer = s) <=> (pc'[s] \in ChangingLabels \cup {"drain"})
                        /\ mu[View[s]].readers[s] = Holds(pc'[s])
                        /\ mu[Swap(View[s])].readers[s] = 0
                        /\ pc'[s] \in ChangingLabels => \A u \in Threads : pc'[u] \notin ReadingLabels
      BY DEF Exclusion
    <2>1. Holds(label) = Holds(pc[t])
      BY DEF Holds
    <2>2. CASE s = t
      BY <1>0, <1>1, <1>2, <2>1, <2>2 DEF Exclusion
    <2>3. CASE s # t
      BY <1>0, <1>1, <1>2, <2>3 DEF Exclusion
    <2> QED
      BY <2>2, <2>3
  <1>4. MutexTypes'
    BY <1>0 DEF MutexTypes
  <1> QED
    BY <1>1, <1>3, <1>4, QuietStep

---------------------------------------------------------------------------------
(***************************************************************************)
(* The steps of the writing methods.                                       *)
(***************************************************************************)
LEMMA MapsChange ==
    ASSUME MapTypes, NEW w \in Views, NEW g \in Map(w), maps' = [maps EXCEPT ![w] = g]
    PROVE  MapTypes' /\ maps'[w] = g /\ maps'[Swap(w)] = maps[Swap(w)]
  BY Apart DEF MapTypes

\* What a goroutine inside a writing method knows.
LEMMA WriterFacts ==
    ASSUME IInv, NEW t \in Threads, pc[t] \in ChangingLabels
    PROVE  /\ View[t] \in Views /\ Swap(View[t]) \in Views /\ MapTypes
           /\ maps[View[t]] \in Map(View[t]) /\ maps[Swap(View[t])] \in Map(Swap(View[t]))
           /\ op \in [Threads -> CallRecord] /\ op[t] \in CallRecord
           /\ op = [op EXCEPT ![t] = op[t]]
           /\ Content(View[t], pc[t], op[t], maps[View[t]], maps[Swap(View[t])])
  <1>1. View[t] \in Views /\ Swap(View[t]) \in Views
    BY ViewAssumption, Apart
  <1>2. op \in [Threads -> CallRecord]
    BY DEF IInv, CallTypes
  <1> QED
    BY <1>1, <1>2 DEF IInv, MapTypes, Writers

LEMMA EvictKeeps ==
    ASSUME OneView, IInv, NEW t \in Threads, Evict(t)
    PROVE  IInv'
  <1> DEFINE w == View[t]
             f == maps[w]
             r == maps[Swap(w)]
             g == IF r[op[t].val] = None THEN f ELSE [f EXCEPT ![r[op[t].val]] = None]
  <1>1. /\ pc[t] = "evict" /\ pc' = [pc EXCEPT ![t] = "store"] /\ mu' = mu /\ op' = op
        /\ maps' = IF r[op[t].val] = None THEN maps ELSE [maps EXCEPT ![w][r[op[t].val]] = None]
    BY DEF Evict, Goto
  <1>2. pc[t] \in ChangingLabels /\ "store" \in ChangingLabels
    BY <1>1 DEF ChangingLabels, WriteLabels
  <1>3. /\ w \in Views /\ MapTypes /\ f \in Map(w) /\ r \in Map(Swap(w)) /\ op[t] \in CallRecord
        /\ op = [op EXCEPT ![t] = op[t]] /\ Content(w, "evict", op[t], f, r)
    BY <1>1, <1>2, WriterFacts
  <1>4. g \in Map(w) /\ Content(w, "store", op[t], g, r)
    BY <1>3, EvictData
  <1>5. MapTypes' /\ maps'[w] = g /\ maps'[Swap(w)] = r
    <2>1. CASE r[op[t].val] = None
      BY <1>1, <1>3, <2>1 DEF MapTypes
    <2>2. CASE r[op[t].val] # None
      <3>1. maps' = [maps EXCEPT ![w] = g]
        BY <1>1, <2>2
      <3> QED
        BY <1>3, <1>4, <3>1, MapsChange
    <2> QED
      BY <2>1, <2>2
  <1> HIDE DEF f, r, g
  <1> QED
    BY <1>1, <1>2, <1>3, <1>4, <1>5, WriterStep

LEMMA StoreKeeps ==
    ASSUME OneView, IInv, NEW t \in Threads, Store(t)
    PROVE  IInv'
  <1> DEFINE w == View[t]
             f == maps[w]
             r == maps[Swap(w)]
             g == [f EXCEPT ![op[t].key] = op[t].val]
             o == [op[t] EXCEPT !.old = f[op[t].key]]
             label == IF f[op[t].key] = None THEN "link" ELSE "unlink"
  <1>1. /\ pc[t] = "store" /\ pc' = [pc EXCEPT ![t] = label] /\ mu' = mu
        /\ op' = [op EXCEPT ![t] = o] /\ maps' = [maps EXCEPT ![w] = g]
    BY DEF Store, Goto
  <1>2. pc[t] \in ChangingLabels /\ label \in ChangingLabels
    BY <1>1 DEF ChangingLabels, WriteLabels
  <1>3. /\ w \in Views /\ MapTypes /\ f \in Map(w) /\ r \in Map(Swap(w)) /\ op[t] \in CallRecord
        /\ Content(w, "store", op[t], f, r)
    BY <1>1, <1>2, WriterFacts
  <1>4. f[op[t].key] \in Keys \cup Values \cup {None}
    <2>1. op[t].key \in KeysOf(w)
      BY <1>3 DEF Content
    <2> QED
      BY <1>3, <2>1 DEF Map, KeysOf
  <1>5. /\ o \in CallRecord /\ o.call = op[t].call /\ o.key = op[t].key /\ o.val = op[t].val
        /\ o.before = op[t].before /\ o.old = f[op[t].key]
    BY <1>3, <1>4 DEF CallRecord
  <1> HIDE DEF f, r, o
  <1>6. g \in Map(w) /\ Content(w, label, o, g, r)
    BY <1>3, <1>5, StoreData
  <1> HIDE DEF g, label
  <1>7. MapTypes' /\ maps'[w] = g /\ maps'[Swap(w)] = r
    BY <1>1, <1>3, <1>6, MapsChange DEF r
  <1> QED
    BY <1>1, <1>2, <1>5, <1>6, <1>7, WriterStep

LEMMA UnlinkKeeps ==
    ASSUME OneView, IInv, NEW t \in Threads, Unlink(t)
    PROVE  IInv'
  <1> DEFINE w == View[t]
             f == maps[w]
             r == maps[Swap(w)]
             s == [r EXCEPT ![op[t].old] = None]
             label == IF op[t].val = None THEN "unlock" ELSE "link"
  <1>1. /\ pc[t] = "unlink" /\ pc' = [pc EXCEPT ![t] = label] /\ mu' = mu
        /\ op' = op /\ maps' = [maps EXCEPT ![Swap(w)] = s]
    BY DEF Unlink, Goto
  <1>2. pc[t] \in ChangingLabels /\ label \in ChangingLabels
    BY <1>1 DEF ChangingLabels, WriteLabels
  <1>3. /\ w \in Views /\ MapTypes /\ f \in Map(w) /\ r \in Map(Swap(w)) /\ op[t] \in CallRecord
        /\ op = [op EXCEPT ![t] = op[t]] /\ Content(w, "unlink", op[t], f, r)
    BY <1>1, <1>2, WriterFacts
  <1>4. s \in Map(Swap(w)) /\ Content(w, label, op[t], f, s)
    BY <1>3, UnlinkData
  <1> HIDE DEF f, r, s, label
  <1>5. MapTypes' /\ maps'[Swap(w)] = s /\ maps'[w] = f
    BY <1>1, <1>3, <1>4, Apart, MapsChange DEF f
  <1> QED
    BY <1>1, <1>2, <1>3, <1>4, <1>5, WriterStep

LEMMA LinkKeeps ==
    ASSUME OneView, IInv, NEW t \in Threads, Link(t)
    PROVE  IInv'
  <1> DEFINE w == View[t]
             f == maps[w]
             r == maps[Swap(w)]
             s == [r EXCEPT ![op[t].val] = op[t].key]
  <1>1. /\ pc[t] = "link" /\ pc' = [pc EXCEPT ![t] = "unlock"] /\ mu' = mu
        /\ op' = op /\ maps' = [maps EXCEPT ![Swap(w)] = s]
    BY DEF Link, Goto
  <1>2. pc[t] \in ChangingLabels /\ "unlock" \in ChangingLabels
    BY <1>1 DEF ChangingLabels, WriteLabels
  <1>3. /\ w \in Views /\ MapTypes /\ f \in Map(w) /\ r \in Map(Swap(w)) /\ op[t] \in CallRecord
        /\ op = [op EXCEPT ![t] = op[t]] /\ Content(w, "link", op[t], f, r)
    BY <1>1, <1>2, WriterFacts
  <1>4. s \in Map(Swap(w)) /\ Content(w, "unlock", op[t], f, s)
    BY <1>3, LinkData
  <1> HIDE DEF f, r, s
  <1>5. MapTypes' /\ maps'[Swap(w)] = s /\ maps'[w] = f
    BY <1>1, <1>3, <1>4, Apart, MapsChange DEF f
  <1> QED
    BY <1>1, <1>2, <1>3, <1>4, <1>5, WriterStep

LEMMA RemoveKeeps ==
    ASSUME OneView, IInv, NEW t \in Threads, Remove(t)
    PROVE  IInv'
  <1> DEFINE w == View[t]
             f == maps[w]
             r == maps[Swap(w)]
             g == [f EXCEPT ![op[t].key] = None]
             o == [op[t] EXCEPT !.old = f[op[t].key]]
             label == IF f[op[t].key] = None THEN "unlock" ELSE "unlink"
  <1>1. /\ pc[t] = "remove" /\ pc' = [pc EXCEPT ![t] = label] /\ mu' = mu
        /\ op' = [op EXCEPT ![t] = o] /\ maps' = [maps EXCEPT ![w] = g]
    BY DEF Remove, Goto
  <1>2. pc[t] \in ChangingLabels /\ label \in ChangingLabels
    BY <1>1 DEF ChangingLabels, WriteLabels
  <1>3. /\ w \in Views /\ MapTypes /\ f \in Map(w) /\ r \in Map(Swap(w)) /\ op[t] \in CallRecord
        /\ Content(w, "remove", op[t], f, r)
    BY <1>1, <1>2, WriterFacts
  <1>4. f[op[t].key] \in Keys \cup Values \cup {None}
    <2>1. op[t].key \in KeysOf(w)
      BY <1>3 DEF Content
    <2> QED
      BY <1>3, <2>1 DEF Map, KeysOf
  <1>5. /\ o \in CallRecord /\ o.call = op[t].call /\ o.key = op[t].key /\ o.val = op[t].val
        /\ o.before = op[t].before /\ o.old = f[op[t].key]
    BY <1>3, <1>4 DEF CallRecord
  <1> HIDE DEF f, r, o
  <1>6. g \in Map(w) /\ Content(w, label, o, g, r)
    BY <1>3, <1>5, RemoveData
  <1> HIDE DEF g, label
  <1>7. MapTypes' /\ maps'[w] = g /\ maps'[Swap(w)] = r
    BY <1>1, <1>3, <1>6, MapsChange DEF r
  <1> QED
    BY <1>1, <1>2, <1>5, <1>6, <1>7, WriterStep

LEMMA ClearKeeps ==
    ASSUME OneView, IInv, NEW t \in Threads, Clear(t)
    PROVE  IInv'
  <1> DEFINE w == View[t]
             f == maps[w]
             r == maps[Swap(w)]
  <1>1. CASE pc[t] = "clear"
    <2>1. /\ pc' = [pc EXCEPT ![t] = "clearReverse"] /\ mu' = mu /\ op' = op
          /\ maps' = [maps EXCEPT ![w] = Empty(w)]
      BY <1>1 DEF Clear, Goto
    <2>2. pc[t] \in ChangingLabels /\ "clearReverse" \in ChangingLabels
      BY <1>1 DEF ChangingLabels, WriteLabels
    <2>3. /\ w \in Views /\ MapTypes /\ f \in Map(w) /\ r \in Map(Swap(w)) /\ op[t] \in CallRecord
          /\ op = [op EXCEPT ![t] = op[t]] /\ Content(w, "clear", op[t], f, r)
      BY <1>1, <2>2, WriterFacts
    <2>4. Empty(w) \in Map(w) /\ Content(w, "clearReverse", op[t], Empty(w), r)
      BY <2>3, ClearData
    <2> HIDE DEF f, r
    <2>5. MapTypes' /\ maps'[w] = Empty(w) /\ maps'[Swap(w)] = r
      BY <2>1, <2>3, <2>4, MapsChange DEF r
    <2> QED
      BY <2>1, <2>2, <2>3, <2>4, <2>5, WriterStep
  <1>2. CASE pc[t] = "clearReverse"
    <2>1. /\ pc' = [pc EXCEPT ![t] = "unlock"] /\ mu' = mu /\ op' = op
          /\ maps' = [maps EXCEPT ![Swap(w)] = Empty(Swap(w))]
      BY <1>2 DEF Clear, Goto
    <2>2. pc[t] \in ChangingLabels /\ "unlock" \in ChangingLabels
      BY <1>2 DEF ChangingLabels, WriteLabels
    <2>3. /\ w \in Views /\ Swap(w) \in Views /\ Swap(Swap(w)) = w /\ MapTypes
          /\ f \in Map(w) /\ r \in Map(Swap(w)) /\ op[t] \in CallRecord
          /\ op = [op EXCEPT ![t] = op[t]] /\ Content(w, "clearReverse", op[t], f, r)
      BY <1>2, <2>2, WriterFacts, Apart
    <2>4. Empty(Swap(w)) \in Map(Swap(w)) /\ Content(w, "unlock", op[t], f, Empty(Swap(w)))
      <3>1. Content(w, "unlock", op[t], f, Empty(Swap(w)))
        BY <2>3, ClearData
      <3>2. Empty(Swap(w)) \in Map(Swap(w))
        BY DEF Empty, Map
      <3> QED
        BY <3>1, <3>2
    <2> HIDE DEF f, r
    <2>5. MapTypes' /\ maps'[Swap(w)] = Empty(Swap(w)) /\ maps'[w] = f
      BY <2>1, <2>3, <2>4, MapsChange DEF f
    <2> QED
      BY <2>1, <2>2, <2>3, <2>4, <2>5, WriterStep
  <1> QED
    BY <1>1, <1>2 DEF Clear

LEMMA LookupKeeps ==
    ASSUME OneView, IInv, NEW t \in Threads, Lookup(t)
    PROVE  IInv'
  <1> DEFINE w == View[t]
             f == maps[w]
             r == maps[Swap(w)]
             o == [op[t] EXCEPT !.old = f[op[t].key]]
  <1>1. PICK label \in {"unlock", "callback"} :
           /\ pc[t] = "lookup" /\ pc' = [pc EXCEPT ![t] = label] /\ mu' = mu
           /\ op' = [op EXCEPT ![t] = o] /\ maps' = maps
    BY DEF Lookup, Goto
  <1>2. pc[t] \in ChangingLabels /\ label \in ChangingLabels
    BY <1>1 DEF ChangingLabels
  <1>3. /\ w \in Views /\ MapTypes /\ f \in Map(w) /\ r \in Map(Swap(w)) /\ op[t] \in CallRecord
        /\ Content(w, "lookup", op[t], f, r)
    BY <1>1, <1>2, WriterFacts
  <1>4. f[op[t].key] \in Keys \cup Values \cup {None}
    <2>1. op[t].key \in KeysOf(w)
      BY <1>3 DEF Content
    <2> QED
      BY <1>3, <2>1 DEF Map, KeysOf
  <1>5. /\ o \in CallRecord /\ o.call = op[t].call /\ o.key = op[t].key /\ o.val = op[t].val
        /\ o.before = op[t].before
    BY <1>3, <1>4 DEF CallRecord
  <1> HIDE DEF f, r, o
  <1>6. Content(w, label, o, f, r)
    <2>1. FirstIs(w, f, o.before) /\ SecondIs(w, r, o.before) /\ OneToOne(w, o.before)
          /\ o.key \in KeysOf(w) /\ o.val = None
      BY <1>3, <1>5 DEF Content
    <2>2. Linked(w, f, r) /\ Outcome(w, f, o.before)
      BY <2>1 DEF FirstIs, SecondIs, Linked, Outcome
    <2> QED
      BY <2>1, <2>2 DEF Content
  <1>7. MapTypes' /\ maps'[w] = f /\ maps'[Swap(w)] = r
    BY <1>1, <1>3 DEF MapTypes, f, r
  <1> QED
    BY <1>1, <1>2, <1>5, <1>6, <1>7, WriterStep

LEMMA CallbackKeeps ==
    ASSUME OneView, IInv, NEW t \in Threads, Callback(t)
    PROVE  IInv'
  <1> DEFINE w == View[t]
             f == maps[w]
             r == maps[Swap(w)]
  <1>1. pc[t] = "callback" /\ mu' = mu /\ maps' = maps
    BY DEF Callback
  <1>2. pc[t] \in ChangingLabels /\ {"evict", "unlock", "remove"} \subseteq ChangingLabels
    BY <1>1 DEF ChangingLabels, WriteLabels
  <1>3. /\ w \in Views /\ MapTypes /\ f \in Map(w) /\ r \in Map(Swap(w)) /\ op[t] \in CallRecord
        /\ op = [op EXCEPT ![t] = op[t]] /\ Content(w, "callback", op[t], f, r)
    BY <1>1, <1>2, WriterFacts
  <1>4. /\ FirstIs(w, f, op[t].before) /\ SecondIs(w, r, op[t].before) /\ OneToOne(w, op[t].before)
        /\ op[t].key \in KeysOf(w) /\ op[t].val = None
    BY <1>3 DEF Content
  <1>5. MapTypes' /\ maps'[w] = f /\ maps'[Swap(w)] = r
    BY <1>1, <1>3 DEF MapTypes
  <1> HIDE DEF f, r
  <1>6. CASE \E v \in KeysOf(Swap(w)) :
                op' = [op EXCEPT ![t].val = v] /\ Goto(t, "evict")
    <2>1. PICK v \in KeysOf(Swap(w)) : op' = [op EXCEPT ![t].val = v] /\ Goto(t, "evict")
      BY <1>6
    <2> DEFINE o == [op[t] EXCEPT !.val = v]
    <2>2. op' = [op EXCEPT ![t] = o] /\ pc' = [pc EXCEPT ![t] = "evict"]
      BY <2>1 DEF Goto
    <2>3. v \in Keys \cup Values \cup {None}
      BY DEF KeysOf
    <2>4. /\ o \in CallRecord /\ o.call = op[t].call /\ o.key = op[t].key /\ o.val = v
          /\ o.before = op[t].before
      BY <1>3, <2>3 DEF CallRecord
    <2> HIDE DEF o
    <2>5. Content(w, "evict", o, f, r)
      BY <1>4, <2>4 DEF Content
    <2> QED
      BY <1>1, <1>2, <1>5, <2>2, <2>4, <2>5, WriterStep
  <1>7. CASE Goto(t, IF op[t].call = "ComputeIfAbsent" THEN "unlock" ELSE "remove") /\ op' = op
    <2>1. PICK label \in {"unlock", "remove"} : pc' = [pc EXCEPT ![t] = label] /\ op' = op
      BY <1>7 DEF Goto
    <2>2. Linked(w, f, r) /\ Outcome(w, f, op[t].before)
      BY <1>4 DEF FirstIs, SecondIs, Linked, Outcome
    <2>3. Content(w, label, op[t], f, r)
      BY <1>4, <2>2 DEF Content
    <2> QED
      BY <1>1, <1>2, <1>3, <1>5, <2>1, <2>3, WriterStep
  <1> QED
    BY <1>6, <1>7 DEF Callback

LEMMA DrainKeeps ==
    ASSUME OneView, IInv, NEW t \in Threads, Drain(t)
    PROVE  IInv' /\ \A s \in Threads : pc[s] \notin ChangingLabels
  <1> DEFINE w == View[t]
             b == Pairs("forward", maps["forward"])
             o == [op[t] EXCEPT !.before = b]
             label == FirstStep(op[t].call)
  <1>0. /\ MapTypes /\ CallTypes /\ Exclusion /\ Readers /\ Undisturbed
        /\ View[t] \in Views /\ \A s \in Threads : View[s] = View[t]
    BY ViewAssumption DEF IInv, OneView
  <1>1. /\ pc[t] = "drain" /\ \A s \in Threads : mu[w].readers[s] = 0
        /\ op' = [op EXCEPT ![t] = o] /\ pc' = [pc EXCEPT ![t] = label] /\ maps' = maps /\ mu' = mu
    BY DEF Drain, Goto
  <1>2. \A s \in Threads : pc[s] \notin ReadingLabels
    <2> SUFFICES ASSUME NEW s \in Threads PROVE pc[s] \notin ReadingLabels
      OBVIOUS
    <2>1. Holds(pc[s]) = 0
      BY <1>0, <1>1 DEF Exclusion
    <2> QED
      BY <2>1 DEF Holds, ReadingLabels
  <1>3. \A s \in Threads : pc[s] \notin ChangingLabels
    <2>1. mu[w].writer = t /\ pc[t] \notin ChangingLabels
      BY <1>0, <1>1 DEF Exclusion, ChangingLabels, WriteLabels
    <2> QED
      BY <1>0, <2>1 DEF Exclusion
  <1>4. Inverse
    BY <1>0, <1>3 DEF Undisturbed
  <1>5. /\ b \in SUBSET (Keys \X Values) /\ OneToOne(w, b)
        /\ FirstIs(w, maps[w], b) /\ SecondIs(w, maps[Swap(w)], b)
    BY <1>0, <1>4, BeforeEntering
  <1>6. /\ op[t] \in CallRecord /\ op[t].call \in Calls \ ReadCalls
        /\ op[t].call # "Clear" => op[t].key \in KeysOf(w)
        /\ op[t].call = "Put" => op[t].val \in KeysOf(Swap(w))
        /\ op[t].call # "Put" => op[t].val = None
    BY <1>0, <1>1 DEF CallTypes, Readers, Calling
  <1>7. /\ label \in {"evict", "remove", "clear", "lookup"}
        /\ label = "evict" => op[t].call = "Put"
        /\ label \in {"remove", "lookup"} => op[t].call \notin {"Put", "Clear"}
    BY <1>6 DEF FirstStep, Calls, ReadCalls, Computes
  <1>8. label \in ChangingLabels
    BY <1>7 DEF ChangingLabels, WriteLabels
  <1> HIDE DEF b
  <1>9. /\ o \in CallRecord /\ o.call = op[t].call /\ o.key = op[t].key /\ o.val = op[t].val
        /\ o.before = b
    BY <1>5, <1>6 DEF CallRecord
  <1> HIDE DEF o, label
  <1>10. Content(w, label, o, maps[w], maps[Swap(w)])
    BY <1>5, <1>6, <1>7, <1>9 DEF Content
  <1>11. MapTypes'
    BY <1>0, <1>1 DEF MapTypes
  <1>12. Content(w, label, o, maps'[w], maps'[Swap(w)])
    BY <1>1, <1>10
  <1> QED
    BY <1>1, <1>2, <1>3, <1>8, <1>9, <1>11, <1>12, WriterStep

LEMMA NoCallType == NoCall \in CallRecord
  BY DEF NoCall, CallRecord

LEMMA UnlockKeeps ==
    ASSUME OneView, IInv, NEW t \in Threads, Unlock(t)
    PROVE  /\ IInv' /\ pc[t] = "unlock" /\ maps' = maps
           /\ \A s \in Threads : pc'[s] \notin ChangingLabels
  <1> DEFINE w == View[t]
  <1>0. /\ MapTypes /\ MutexTypes /\ CallTypes /\ Exclusion /\ Readers
        /\ w \in Views /\ \A s \in Threads : View[s] = w
    BY ViewAssumption DEF IInv, OneView
  <1>1. /\ pc[t] = "unlock" /\ pc' = [pc EXCEPT ![t] = "idle"] /\ op' = [op EXCEPT ![t] = NoCall]
        /\ mu' = [mu EXCEPT ![w] = [mu[w] EXCEPT !.writer = None]] /\ maps' = maps
    BY DEF Unlock, Goto
  <1>2. pc[t] \in ChangingLabels
    BY <1>1 DEF ChangingLabels
  <1>3. \A s \in Threads : pc[s] \notin ReadingLabels /\ (s # t => pc[s] \notin ChangingLabels \cup {"drain"})
    <2>1. mu[w].writer = t
      BY <1>0, <1>2 DEF Exclusion
    <2> QED
      BY <1>0, <1>2, <2>1 DEF Exclusion
  <1>4. Inverse
    <2>1. Content(w, "unlock", op[t], maps[w], maps[Swap(w)])
      BY <1>1, <1>2, WriterFacts
    <2> QED
      BY <1>0, <2>1, InverseIsLinked DEF Content
  <1>5. /\ pc'[t] = "idle" /\ op'[t] = NoCall
        /\ \A s \in Threads : s # t => pc'[s] = pc[s] /\ op'[s] = op[s]
        /\ "idle" \in Labels /\ pc' \in [Threads -> Labels] /\ op' \in [Threads -> CallRecord]
    BY <1>0, <1>1, NoCallType DEF CallTypes, Labels
  <1>6. \A s \in Threads : pc'[s] \notin ChangingLabels \cup ReadingLabels \cup {"drain"}
    BY <1>3, <1>5 DEF ChangingLabels, WriteLabels, ReadingLabels
  <1>7. mu'[w].writer = None /\ mu'[w].readers = mu[w].readers /\ mu'[Swap(w)] = mu[Swap(w)]
    BY <1>0, <1>1, Apart DEF MutexTypes
  <1>8. MapTypes' /\ CallTypes'
    BY <1>0, <1>1, <1>5 DEF MapTypes, CallTypes
  <1>9. MutexTypes'
    BY <1>0, <1>1 DEF MutexTypes
  <1>10. Exclusion'
    <2> SUFFICES ASSUME NEW s \in Threads
                 PROVE  /\ mu'[w].writer # s
                        /\ mu'[w].readers[s] = Holds(pc'[s])
                        /\ mu'[Swap(w)].readers[s] = 0
      BY <1>0, <1>6 DEF Exclusion
    <2>1. Holds(pc'[s]) = 0 /\ Holds(pc[s]) = 0
      BY <1>3, <1>6 DEF Holds, ReadingLabels
    <2>2. mu[w].readers[s] = 0 /\ mu[Swap(w)].readers[s] = 0
      BY <1>0, <2>1 DEF Exclusion
    <2>3. s # None
      BY ViewAssumption
    <2> QED
      BY <1>7, <2>1, <2>2, <2>3
  <1>11. Readers'
    <2> SUFFICES ASSUME NEW s \in Threads
                 PROVE  Calling(s, pc'[s], op'[s]) /\ Seen(s, pc[s], op[s])'
      BY DEF Readers, Calling
    <2>1. Seen(s, pc[s], op[s])'
      BY <1>6 DEF Seen, ReadingLabels
    <2>2. CASE s = t
      BY <1>5, <1>6, <2>1, <2>2 DEF Calling, ReadingLabels
    <2>3. CASE s # t
      BY <1>0, <1>5, <2>1, <2>3 DEF Readers
    <2> QED
      BY <2>2, <2>3
  <1>12. Writers' /\ Undisturbed'
    BY <1>1, <1>4, <1>6 DEF Writers, Undisturbed, Inverse
  <1> QED
    BY <1>1, <1>6, <1>8, <1>9, <1>10, <1>11, <1>12 DEF IInv

(***************************************************************************)
(* The steps of the reading methods.                                       *)
(***************************************************************************)

\* What a goroutine inside a reading method knows: the maps are at rest.
LEMMA ReaderFacts ==
    ASSUME OneView, IInv, NEW t \in Threads, pc[t] \in ReadingLabels
    PROVE  /\ View[t] \in Views /\ Swap(View[t]) \in Views /\ MapTypes /\ Inverse
           /\ maps[View[t]] \in Map(View[t]) /\ maps[Swap(View[t])] \in Map(Swap(View[t]))
           /\ op \in [Threads -> CallRecord] /\ op[t] \in CallRecord
           /\ op = [op EXCEPT ![t] = op[t]]
           /\ Calling(t, pc[t], op[t]) /\ Seen(t, pc[t], op[t])
  <1>1. View[t] \in Views /\ Swap(View[t]) \in Views
    BY ViewAssumption, Apart
  <1>2. op \in [Threads -> CallRecord]
    BY DEF IInv, CallTypes
  <1>3. Inverse
    <2>1. \A s \in Threads : pc[s] \notin ChangingLabels
      BY DEF IInv, Exclusion
    <2> QED
      BY <2>1 DEF IInv, Undisturbed
  <1> QED
    BY <1>1, <1>2, <1>3 DEF IInv, MapTypes, Readers

LEMMA GetKeeps ==
    ASSUME OneView, IInv, NEW t \in Threads, Get(t)
    PROVE  IInv'
  <1> DEFINE w == View[t]
             o == [op[t] EXCEPT !.old = maps[w][op[t].key]]
  <1>1. /\ pc[t] = "get" /\ op' = [op EXCEPT ![t] = o] /\ pc' = [pc EXCEPT ![t] = "runlock"]
        /\ maps' = maps /\ mu' = mu
    BY DEF Get, Goto
  <1>2. pc[t] \in ReadingLabels /\ "runlock" \in ReadingLabels
    BY <1>1 DEF ReadingLabels
  <1>3. op[t] \in CallRecord /\ maps[w] \in Map(w) /\ op[t].call = "Get" /\ op[t].key \in KeysOf(w)
    BY <1>1, <1>2, ReaderFacts DEF Calling
  <1>4. maps[w][op[t].key] \in Keys \cup Values \cup {None}
    BY <1>3 DEF Map, KeysOf
  <1>5. o \in CallRecord /\ o.call = "Get"
    BY <1>3, <1>4 DEF CallRecord
  <1> HIDE DEF o
  <1>6. Calling(t, "runlock", o) /\ Seen(t, "runlock", o)
    BY <1>5 DEF Calling, Seen, Calls, ReadCalls, ChangingLabels, WriteLabels
  <1> QED
    BY <1>1, <1>2, <1>5, <1>6, ReaderStep

LEMMA YieldKeeps ==
    ASSUME OneView, IInv, NEW t \in Threads, Yield(t)
    PROVE  IInv'
  <1> DEFINE w == View[t]
  <1>1. pc[t] = "yield" /\ maps' = maps /\ mu' = mu
    BY DEF Yield
  <1>2. pc[t] \in ReadingLabels /\ {"yield", "nestedRLock", "runlock"} \subseteq ReadingLabels
    BY <1>1 DEF ReadingLabels
  <1>3. /\ op[t] \in CallRecord /\ w \in Views /\ MapTypes /\ maps[w] \in Map(w) /\ op[t].call = "Iter"
        /\ Pairs(w, maps[w]) = Pairs("forward", maps["forward"])
        /\ op[t].copy \subseteq Pairs(w, maps[w])
        /\ op = [op EXCEPT ![t] = op[t]]
    BY <1>1, <1>2, ReaderFacts, InverseIsLinked DEF Calling, Seen
  <1>4. ASSUME NEW o \in CallRecord, o.call = "Iter", o.copy \subseteq Pairs(w, maps[w]),
               NEW label \in {"yield", "nestedRLock", "runlock"},
               op' = [op EXCEPT ![t] = o], pc' = [pc EXCEPT ![t] = label]
        PROVE  IInv'
    <2>1. Calling(t, label, o)
      BY <1>4 DEF Calling, Calls, ReadCalls, ChangingLabels, WriteLabels
    <2>2. Seen(t, label, o)
      BY <1>3, <1>4 DEF Seen
    <2> QED
      BY <1>1, <1>2, <1>4, <2>1, <2>2, ReaderStep
  <1>5. CASE \E k \in KeysOf(w) \ op[t].seen :
                /\ maps[w][k] # None
                /\ op' = [op EXCEPT ![t].seen = @ \cup {k},
                                    ![t].copy = @ \cup Pairs(w, [Empty(w) EXCEPT ![k] = maps[w][k]])]
                /\ Goto(t, IF t \in NestedReaders THEN "nestedRLock" ELSE "yield")
    <2>1. PICK k \in KeysOf(w) \ op[t].seen :
                /\ maps[w][k] # None
                /\ op' = [op EXCEPT ![t].seen = @ \cup {k},
                                    ![t].copy = @ \cup Pairs(w, [Empty(w) EXCEPT ![k] = maps[w][k]])]
                /\ Goto(t, IF t \in NestedReaders THEN "nestedRLock" ELSE "yield")
      BY <1>5
    <2> DEFINE one == [Empty(w) EXCEPT ![k] = maps[w][k]]
               o == [op[t] EXCEPT !.seen = @ \cup {k}, !.copy = @ \cup Pairs(w, one)]
    <2>2. op' = [op EXCEPT ![t] = o]
      BY <1>3, <2>1 DEF CallRecord
    <2>3. one \in Map(w)
      BY <1>3 DEF Map, Empty
    <2>4. Pairs(w, one) \subseteq Pairs(w, maps[w])
      <3>1. Pairs(w, one) \in SUBSET (Keys \X Values)
        BY <1>3, <2>3, PairsMember
      <3>2. ASSUME NEW l \in KeysOf(w), NEW v \in KeysOf(Swap(w)), one[l] = v PROVE maps[w][l] = v
        <4>1. v # None
          BY <1>3, Apart
        <4> QED
          BY <1>3, <3>2, <4>1 DEF Empty, Map
      <3> HIDE DEF one
      <3>3. ASSUME NEW l \in KeysOf(w), NEW v \in KeysOf(Swap(w)), Entry(w, l, v) \in Pairs(w, one)
            PROVE  Entry(w, l, v) \in Pairs(w, maps[w])
        <4>1. one[l] = v
          BY <1>3, <2>3, <3>3, PairsMember
        <4> QED
          BY <1>3, <3>2, <4>1, PairsMember
      <3> QED
        BY <1>3, <3>1, <3>3, EntryShape
    <2>5. Pairs(w, maps[w]) \in SUBSET (Keys \X Values) /\ k \in Keys \cup Values
      BY <1>3, PairsMember DEF KeysOf
    <2> HIDE DEF one
    <2>6. o \in CallRecord /\ o.call = "Iter" /\ o.copy \subseteq Pairs(w, maps[w])
      BY <1>3, <2>4, <2>5 DEF CallRecord
    <2> HIDE DEF o
    <2> QED
      BY <1>4, <2>1, <2>2, <2>6 DEF Goto
  <1>6. CASE Goto(t, "runlock") /\ op' = op
    BY <1>3, <1>4, <1>6 DEF Goto
  <1> QED
    BY <1>5, <1>6 DEF Yield

LEMMA CloneKeeps ==
    ASSUME OneView, IInv, NEW t \in Threads, Clone(t)
    PROVE  IInv'
  <1> DEFINE w == View[t]
  <1>1. CASE pc[t] = "copy"
    <2> DEFINE o == [op[t] EXCEPT !.copy = Pairs(w, maps[w])]
    <2>1. /\ op' = [op EXCEPT ![t] = o] /\ pc' = [pc EXCEPT ![t] = "copyReverse"]
          /\ maps' = maps /\ mu' = mu
      BY <1>1 DEF Clone, Goto
    <2>2. pc[t] \in ReadingLabels /\ "copyReverse" \in ReadingLabels
      BY <1>1 DEF ReadingLabels
    <2>3. /\ op[t] \in CallRecord /\ op[t].call = "Clone"
          /\ Pairs(w, maps[w]) \in SUBSET (Keys \X Values)
      BY <1>1, <2>2, ReaderFacts, PairsMember DEF Calling
    <2>4. o \in CallRecord /\ o.call = "Clone" /\ o.copy = Pairs(w, maps[w])
      BY <2>3 DEF CallRecord
    <2> HIDE DEF o
    <2>5. Calling(t, "copyReverse", o) /\ Seen(t, "copyReverse", o)
      BY <2>4 DEF Calling, Seen, Calls, ReadCalls, ChangingLabels, WriteLabels
    <2> QED
      BY <1>1, <2>1, <2>2, <2>4, <2>5, ReaderStep
  <1>2. CASE pc[t] = "copyReverse"
    <2> DEFINE o == [op[t] EXCEPT !.mirror = Pairs(Swap(w), maps[Swap(w)])]
    <2>1. /\ op' = [op EXCEPT ![t] = o] /\ pc' = [pc EXCEPT ![t] = "runlock"]
          /\ maps' = maps /\ mu' = mu
      BY <1>2 DEF Clone, Goto
    <2>2. pc[t] \in ReadingLabels /\ "runlock" \in ReadingLabels
      BY <1>2 DEF ReadingLabels
    <2>3. /\ op[t] \in CallRecord /\ op[t].call = "Clone" /\ op[t].copy = Pairs(w, maps[w])
          /\ Pairs(Swap(w), maps[Swap(w)]) \in SUBSET (Keys \X Values)
      BY <1>2, <2>2, ReaderFacts, PairsMember DEF Calling, Seen
    <2>4. Pairs(Swap(w), maps[Swap(w)]) = Pairs(w, maps[w])
      BY <2>2, ReaderFacts, InverseIsLinked
    <2>5. o \in CallRecord /\ o.call = "Clone" /\ o.copy = o.mirror
      BY <2>3, <2>4 DEF CallRecord
    <2> HIDE DEF o
    <2>6. Calling(t, "runlock", o) /\ Seen(t, "runlock", o)
      BY <2>5 DEF Calling, Seen, Calls, ReadCalls, ChangingLabels, WriteLabels
    <2> QED
      BY <1>2, <2>1, <2>2, <2>5, <2>6, ReaderStep
  <1> QED
    BY <1>1, <1>2 DEF Clone

(***************************************************************************)
(* Calling a method, and the mutex.                                        *)
(***************************************************************************)
LEMMA CallMethodKeeps ==
    ASSUME OneView, IInv, NEW t \in Threads, CallMethod(t)
    PROVE  IInv'
  <1>0. MutexTypes /\ CallTypes /\ Exclusion
    BY DEF IInv
  <1>1. PICK c \in Calls, k \in KeysOf(View[t]), v \in KeysOf(Swap(View[t])) :
          /\ op' = [op EXCEPT ![t] =
                [NoCall EXCEPT !.call = c,
                               !.key = IF c \in {"Clear", "Iter", "Clone"} THEN None ELSE k,
                               !.val = IF c = "Put" THEN v ELSE None]]
          /\ Goto(t, IF c \in ReadCalls THEN "rlock" ELSE "lock")
    BY DEF CallMethod
  <1> DEFINE o == [NoCall EXCEPT !.call = c,
                                 !.key = IF c \in {"Clear", "Iter", "Clone"} THEN None ELSE k,
                                 !.val = IF c = "Put" THEN v ELSE None]
             label == IF c \in ReadCalls THEN "rlock" ELSE "lock"
  <1>2. /\ pc[t] = "idle" /\ op' = [op EXCEPT ![t] = o] /\ pc' = [pc EXCEPT ![t] = label]
        /\ maps' = maps /\ mu' = mu
    BY <1>1 DEF CallMethod, Goto
  <1>3. k \in Keys \cup Values /\ v \in Keys \cup Values
    BY DEF KeysOf
  <1>4. /\ o \in CallRecord /\ o.call = c /\ o.copy = {}
        /\ o.key = IF c \in {"Clear", "Iter", "Clone"} THEN None ELSE k
        /\ o.val = IF c = "Put" THEN v ELSE None
    BY <1>3 DEF NoCall, CallRecord
  <1> HIDE DEF o
  <1>5. Calling(t, label, o) /\ Seen(t, label, o)
    <2>1. CASE c \in ReadCalls
      BY <1>4, <2>1 DEF Calling, Seen, ReadCalls, ChangingLabels, WriteLabels, ReadingLabels
    <2>2. CASE c \notin ReadCalls
      BY <1>4, <2>2 DEF Calling, Seen, ReadCalls, ChangingLabels, WriteLabels, ReadingLabels
    <2> QED
      BY <2>1, <2>2
  <1>6. /\ label \in Labels /\ label \notin ChangingLabels \cup ReadingLabels \cup {"drain"}
        /\ pc[t] \notin ChangingLabels \cup ReadingLabels \cup {"drain"}
    BY <1>2 DEF Labels, ReadingLabels, ChangingLabels, WriteLabels
  <1> HIDE DEF label
  <1>7. pc'[t] = label /\ \A s \in Threads : s # t => pc'[s] = pc[s]
    BY <1>0, <1>2 DEF CallTypes
  <1>8. Exclusion'
    <2> SUFFICES ASSUME NEW s \in Threads
                 PROVE  /\ (mu[View[s]].writer = s) <=> (pc'[s] \in ChangingLabels \cup {"drain"})
                        /\ mu[View[s]].readers[s] = Holds(pc'[s])
                        /\ mu[Swap(View[s])].readers[s] = 0
                        /\ pc'[s] \in ChangingLabels => \A u \in Threads : pc'[u] \notin ReadingLabels
      BY <1>2 DEF Exclusion
    <2>1. Holds(label) = 0 /\ Holds(pc[t]) = 0
      BY <1>6 DEF Holds, ReadingLabels
    <2>2. CASE s = t
      BY <1>0, <1>6, <1>7, <2>1, <2>2 DEF Exclusion
    <2>3. CASE s # t
      BY <1>0, <1>6, <1>7, <2>3 DEF Exclusion
    <2> QED
      BY <2>2, <2>3
  <1>9. MutexTypes'
    BY <1>0, <1>2 DEF MutexTypes
  <1> QED
    BY <1>2, <1>4, <1>5, <1>6, <1>8, <1>9, QuietStep

LEMMA LockKeeps ==
    ASSUME OneView, IInv, NEW t \in Threads, Lock(t)
    PROVE  IInv'
  <1> DEFINE w == View[t]
  <1>0. /\ MutexTypes /\ CallTypes /\ Exclusion /\ Readers
        /\ w \in Views /\ \A s \in Threads : View[s] = w
    BY ViewAssumption DEF IInv, OneView
  <1>1. /\ pc[t] = "lock" /\ mu[w].writer = None /\ mu' = [mu EXCEPT ![w] = [mu[w] EXCEPT !.writer = t]]
        /\ pc' = [pc EXCEPT ![t] = "drain"] /\ maps' = maps /\ op' = op
    BY DEF Lock, Goto
  <1>2. op[t] \in CallRecord /\ op' = [op EXCEPT ![t] = op[t]]
    BY <1>0, <1>1 DEF CallTypes
  <1>3. Calling(t, "drain", op[t]) /\ Seen(t, "drain", op[t])
    <2>1. Calling(t, "lock", op[t])
      BY <1>0, <1>1 DEF Readers
    <2> QED
      BY <2>1 DEF Calling, Seen, ChangingLabels, WriteLabels, ReadingLabels
  <1>4. /\ "drain" \in Labels /\ "drain" \notin ChangingLabels \cup ReadingLabels
        /\ pc[t] \notin ChangingLabels \cup ReadingLabels
    BY <1>1 DEF Labels, ReadingLabels, ChangingLabels, WriteLabels
  <1>5. pc'[t] = "drain" /\ \A s \in Threads : s # t => pc'[s] = pc[s]
    BY <1>0, <1>1 DEF CallTypes
  <1>6. mu'[w].writer = t /\ mu'[w].readers = mu[w].readers /\ mu'[Swap(w)] = mu[Swap(w)]
    BY <1>0, <1>1, Apart DEF MutexTypes
  <1>7. \A s \in Threads : pc[s] \notin ChangingLabels \cup {"drain"}
    BY <1>0, <1>1, ViewAssumption DEF Exclusion
  <1>8. Exclusion'
    <2> SUFFICES ASSUME NEW s \in Threads
                 PROVE  /\ (mu'[w].writer = s) <=> (pc'[s] \in ChangingLabels \cup {"drain"})
                        /\ mu'[w].readers[s] = Holds(pc'[s])
                        /\ mu'[Swap(w)].readers[s] = 0
                        /\ pc'[s] \notin ChangingLabels
      BY <1>0 DEF Exclusion
    <2>1. Holds("drain") = 0 /\ Holds(pc[t]) = 0
      BY <1>4 DEF Holds, ReadingLabels
    <2>2. mu[w].readers[s] = Holds(pc[s]) /\ mu[Swap(w)].readers[s] = 0
      BY <1>0 DEF Exclusion
    <2>3. CASE s = t
      BY <1>4, <1>5, <1>6, <2>1, <2>2, <2>3
    <2>4. CASE s # t
      BY <1>5, <1>6, <1>7, <2>2, <2>4
    <2> QED
      BY <2>3, <2>4
  <1>9. MutexTypes'
    BY <1>0, <1>1 DEF MutexTypes
  <1> QED
    BY <1>1, <1>2, <1>3, <1>4, <1>8, <1>9, QuietStep

\* Taking or giving back the mutex for reading: the count follows the label.
LEMMA CountStep ==
    ASSUME OneView, IInv, NEW t \in Threads, NEW label \in Labels, NEW o \in CallRecord,
           pc[t] \notin ChangingLabels \cup {"drain"}, label \notin ChangingLabels \cup {"drain"},
           label \in ReadingLabels => (pc[t] \in ReadingLabels \/ mu[View[t]].writer = None),
           mu' = [mu EXCEPT ![View[t]].readers[t] = Holds(label)],
           pc' = [pc EXCEPT ![t] = label], op' = [op EXCEPT ![t] = o], maps' = maps,
           Calling(t, label, o), Seen(t, label, o)
    PROVE  IInv'
  <1> DEFINE w == View[t]
  <1>0. /\ MutexTypes /\ CallTypes /\ Exclusion
        /\ w \in Views /\ \A s \in Threads : View[s] = w
    BY ViewAssumption DEF IInv, OneView
  <1>1. Holds(label) \in 0..2
    BY DEF Holds
  <1>2. pc'[t] = label /\ \A s \in Threads : s # t => pc'[s] = pc[s]
    BY <1>0 DEF CallTypes
  <1>3. mu' = [mu EXCEPT ![w] = [mu[w] EXCEPT !.readers = [mu[w].readers EXCEPT ![t] = Holds(label)]]]
    OBVIOUS
  <1>4. /\ mu'[w].writer = mu[w].writer /\ mu'[Swap(w)] = mu[Swap(w)]
        /\ mu'[w].readers = [mu[w].readers EXCEPT ![t] = Holds(label)]
    BY <1>0, <1>3, Apart DEF MutexTypes
  <1>5. MutexTypes'
    <2>1. mu[w] \in [writer : Threads \cup {None}, readers : [Threads -> 0..2]]
      BY <1>0 DEF MutexTypes
    <2>2. [mu[w].readers EXCEPT ![t] = Holds(label)] \in [Threads -> 0..2]
      BY <1>1, <2>1
    <2> QED
      BY <1>0, <1>3, <2>1, <2>2 DEF MutexTypes
  <1>6. mu'[w].readers[t] = Holds(label) /\ \A s \in Threads : s # t => mu'[w].readers[s] = mu[w].readers[s]
    BY <1>0, <1>4 DEF MutexTypes
  <1>7. Exclusion'
    <2> SUFFICES ASSUME NEW s \in Threads
                 PROVE  /\ (mu'[w].writer = s) <=> (pc'[s] \in ChangingLabels \cup {"drain"})
                        /\ mu'[w].readers[s] = Holds(pc'[s])
                        /\ mu'[Swap(w)].readers[s] = 0
                        /\ pc'[s] \in ChangingLabels => \A u \in Threads : pc'[u] \notin ReadingLabels
      BY <1>0 DEF Exclusion
    <2>1. /\ (mu[w].writer = s) <=> (pc[s] \in ChangingLabels \cup {"drain"})
          /\ mu[w].readers[s] = Holds(pc[s])
          /\ mu[Swap(w)].readers[s] = 0
          /\ pc[s] \in ChangingLabels => \A u \in Threads : pc[u] \notin ReadingLabels
      BY <1>0 DEF Exclusion
    <2>2. CASE s = t
      BY <1>2, <1>4, <1>6, <2>1, <2>2
    <2>3. CASE s # t
      <3>1. pc[s] \in ChangingLabels => label \notin ReadingLabels
        BY <2>1, ViewAssumption
      <3> QED
        BY <1>2, <1>4, <1>6, <2>1, <2>3, <3>1
    <2> QED
      BY <2>2, <2>3
  <1> QED
    BY <1>5, <1>7, QuietStep

LEMMA RLockKeeps ==
    ASSUME OneView, IInv, NEW t \in Threads, RLock(t)
    PROVE  IInv'
  <1> DEFINE w == View[t]
             label == FirstRead(op[t].call)
  <1>1. /\ pc[t] = "rlock" /\ mu[w].writer = None
        /\ mu' = [mu EXCEPT ![w].readers[t] = mu[w].readers[t] + 1]
        /\ pc' = [pc EXCEPT ![t] = label] /\ maps' = maps /\ op' = op
    BY DEF RLock, Goto
  <1>2. /\ mu[w].readers[t] = Holds(pc[t]) /\ op[t] \in CallRecord /\ op' = [op EXCEPT ![t] = op[t]]
        /\ Calling(t, "rlock", op[t])
    BY <1>1 DEF IInv, Exclusion, CallTypes, Readers
  <1>3. /\ label \in {"get", "yield", "copy"} /\ op[t].call \in ReadCalls
        /\ label = "get" <=> op[t].call = "Get"
        /\ label = "yield" <=> op[t].call = "Iter"
        /\ label = "copy" <=> op[t].call = "Clone"
        /\ op[t].call = "Get" => op[t].key \in KeysOf(w)
        /\ op[t].copy = {}
    BY <1>2 DEF Calling, FirstRead, ReadCalls
  <1> HIDE DEF label
  <1>4. Calling(t, label, op[t])
    BY <1>3 DEF Calling, Calls, ReadCalls, ChangingLabels, WriteLabels
  <1>5. Seen(t, label, op[t])
    BY <1>3 DEF Seen
  <1>6. mu[w].readers[t] + 1 = Holds(label)
    BY <1>1, <1>2, <1>3 DEF Holds, ReadingLabels
  <1>7. /\ pc[t] \notin ChangingLabels \cup {"drain"} /\ label \notin ChangingLabels \cup {"drain"}
        /\ label \in Labels
    BY <1>1, <1>3 DEF ChangingLabels, WriteLabels, Labels, ReadLabels
  <1> QED
    BY <1>1, <1>2, <1>4, <1>5, <1>6, <1>7, CountStep

LEMMA RUnlockKeeps ==
    ASSUME OneView, IInv, NEW t \in Threads, RUnlock(t)
    PROVE  IInv'
  <1> DEFINE w == View[t]
  <1>1. /\ pc[t] = "runlock" /\ mu' = [mu EXCEPT ![w].readers[t] = mu[w].readers[t] - 1]
        /\ pc' = [pc EXCEPT ![t] = "idle"] /\ maps' = maps /\ op' = [op EXCEPT ![t] = NoCall]
    BY DEF RUnlock, Goto
  <1>2. mu[w].readers[t] = Holds(pc[t])
    BY DEF IInv, Exclusion
  <1>3. mu[w].readers[t] - 1 = Holds("idle")
    BY <1>1, <1>2 DEF Holds, ReadingLabels
  <1>4. /\ pc[t] \notin ChangingLabels \cup {"drain"} /\ "idle" \notin ChangingLabels \cup {"drain"}
        /\ "idle" \in Labels /\ "idle" \notin ReadingLabels
    BY <1>1 DEF ChangingLabels, WriteLabels, Labels, ReadingLabels
  <1>5. Calling(t, "idle", NoCall) /\ Seen(t, "idle", NoCall)
    BY <1>4 DEF Calling, Seen
  <1> QED
    BY <1>1, <1>3, <1>4, <1>5, NoCallType, CountStep

LEMMA NestedGetKeeps ==
    ASSUME OneView, IInv, NEW t \in Threads, NestedGet(t)
    PROVE  IInv'
  <1> DEFINE w == View[t]
  <1>1. mu[w].readers[t] = Holds(pc[t]) /\ maps' = maps /\ op' = op
    BY DEF IInv, Exclusion, NestedGet
  <1>2. pc[t] \in {"nestedRLock", "nestedRUnlock"}
    BY DEF NestedGet
  <1>3. /\ pc[t] \in ReadingLabels /\ pc[t] \notin ChangingLabels \cup {"drain"}
        /\ {"nestedRUnlock", "yield"} \subseteq Labels /\ "yield" \in ReadingLabels
        /\ "nestedRUnlock" \notin ChangingLabels \cup {"drain"} /\ "yield" \notin ChangingLabels \cup {"drain"}
    BY <1>2 DEF ChangingLabels, WriteLabels, Labels, ReadLabels, ReadingLabels
  <1>4. /\ op[t] \in CallRecord /\ op' = [op EXCEPT ![t] = op[t]] /\ op[t].call = "Iter"
        /\ op[t].copy \subseteq Pairs("forward", maps["forward"])
    BY <1>1, <1>2, <1>3, ReaderFacts DEF Calling, Seen
  <1>5. ASSUME NEW label \in {"nestedRUnlock", "yield"}
        PROVE  Calling(t, label, op[t]) /\ Seen(t, label, op[t])
    BY <1>4, <1>5 DEF Calling, Seen, Calls, ReadCalls, ChangingLabels, WriteLabels
  <1>6. CASE pc[t] = "nestedRLock"
    <2>1. /\ mu' = [mu EXCEPT ![w].readers[t] = mu[w].readers[t] + 1]
          /\ pc' = [pc EXCEPT ![t] = "nestedRUnlock"]
      BY <1>6 DEF NestedGet, Goto
    <2>2. mu[w].readers[t] + 1 = Holds("nestedRUnlock")
      BY <1>1, <1>6 DEF Holds, ReadingLabels
    <2> QED
      BY <1>1, <1>3, <1>4, <1>5, <2>1, <2>2, CountStep
  <1>7. CASE pc[t] = "nestedRUnlock"
    <2>1. /\ mu' = [mu EXCEPT ![w].readers[t] = mu[w].readers[t] - 1]
          /\ pc' = [pc EXCEPT ![t] = "yield"]
      BY <1>7 DEF NestedGet, Goto
    <2>2. mu[w].readers[t] - 1 = Holds("yield")
      BY <1>1, <1>7 DEF Holds, ReadingLabels
    <2> QED
      BY <1>1, <1>3, <1>4, <1>5, <2>1, <2>2, CountStep
  <1> QED
    BY <1>2, <1>6, <1>7

---------------------------------------------------------------------------------
(***************************************************************************)
(* The invariant, and what follows from it.                                *)
(***************************************************************************)
LEMMA InitEstablishes == Init => IInv
  <1> SUFFICES ASSUME Init PROVE IInv
    OBVIOUS
  <1>0. /\ maps = [w \in Views |-> Empty(w)]
        /\ mu = [w \in Views |-> [writer |-> None, readers |-> [t \in Threads |-> 0]]]
        /\ pc = [t \in Threads |-> "idle"] /\ op = [t \in Threads |-> NoCall]
    BY DEF Init
  <1>1. MapTypes
    BY <1>0 DEF MapTypes, Map, Empty
  <1>2. MutexTypes
    BY <1>0 DEF MutexTypes
  <1>3. CallTypes
    BY <1>0, NoCallType DEF CallTypes, Labels
  <1>4. \A t \in Threads : pc[t] = "idle" /\ pc[t] \notin ChangingLabels \cup ReadingLabels \cup {"drain"}
    BY <1>0 DEF ChangingLabels, WriteLabels, ReadingLabels
  <1>5. Exclusion
    <2> SUFFICES ASSUME NEW t \in Threads
                 PROVE  /\ mu[View[t]].writer # t
                        /\ mu[View[t]].readers[t] = 0
                        /\ mu[Swap(View[t])].readers[t] = 0
      BY <1>4 DEF Exclusion, Holds
    <2>1. View[t] \in Views /\ Swap(View[t]) \in Views /\ None # t
      BY ViewAssumption, Apart
    <2> QED
      BY <1>0, <2>1
  <1>6. Readers
    BY <1>4 DEF Readers, Calling, Seen
  <1>7. Writers
    BY <1>4 DEF Writers
  <1>8. Inverse
    <2>1. Linked("forward", maps["forward"], maps["reverse"])
      BY <1>0, ViewAssumption DEF Linked, Empty, Views, Swap, KeysOf
    <2> QED
      BY <1>1, <2>1, InverseIsLinked DEF Views, Swap
  <1> QED
    BY <1>1, <1>2, <1>3, <1>5, <1>6, <1>7, <1>8 DEF IInv, Undisturbed

LEMMA NextKeeps == OneView /\ IInv /\ [Next]_vars => IInv'
  <1> SUFFICES ASSUME OneView, IInv, [Next]_vars PROVE IInv'
    OBVIOUS
  <1>1. CASE Next
    <2>1. PICK t \in Threads : CallMethod(t) \/ Acquire(t) \/ Work(t)
      BY <1>1 DEF Next
    <2>2. CASE CallMethod(t)
      BY <2>2, CallMethodKeeps
    <2>3. CASE Acquire(t)
      BY <2>3, LockKeeps, RLockKeeps, NestedGetKeeps DEF Acquire
    <2>4. CASE Work(t)
      BY <2>4, DrainKeeps, UnlockKeeps, RUnlockKeeps, EvictKeeps, StoreKeeps, UnlinkKeeps, LinkKeeps,
         RemoveKeeps, ClearKeeps, LookupKeeps, CallbackKeeps, GetKeeps, YieldKeeps, CloneKeeps DEF Work
    <2> QED
      BY <2>1, <2>2, <2>3, <2>4
  <1>2. CASE UNCHANGED vars
    BY <1>2 DEF vars, IInv, MapTypes, MutexTypes, CallTypes, Exclusion, Readers, Calling, Seen, Writers,
                Undisturbed, Inverse
  <1> QED
    BY <1>1, <1>2

\* With one wrapper the mutex does its work: the invariant holds always.
LEMMA IInvHolds ==
    ASSUME OneView
    PROVE  Spec => []IInv
  <1>1. Init => IInv
    BY InitEstablishes
  <1>2. IInv /\ [Next]_vars => IInv'
    BY NextKeeps
  <1> QED
    BY <1>1, <1>2, PTL DEF Spec

\* Between calls the two hash maps are each other's inverse, so no value is held
\* by two keys, however the calls of Put, Remove, Clear and Compute interleaved.
THEOREM BijectiveHolds ==
    ASSUME OneView
    PROVE  Spec => []Bijective
  <1>1. IInv => Bijective
    <2> SUFFICES ASSUME IInv, Quiet PROVE Inverse
      BY DEF Bijective
    <2>1. \A t \in Threads : pc[t] \notin ChangingLabels
      BY DEF Quiet, ChangingLabels, WriteLabels
    <2> QED
      BY <2>1 DEF IInv, Undisturbed
  <1> QED
    BY <1>1, IInvHolds, PTL

\* A clone is a bimap and a loop over Iter yields entries of one single state,
\* because the read lock is held from the first access to the last.
THEOREM ReadersSeeOneStateHolds ==
    ASSUME OneView
    PROVE  Spec => []ReadersSeeOneState
  <1>1. IInv => ReadersSeeOneState
    <2> SUFFICES ASSUME IInv, NEW t \in Threads
                 PROVE  /\ pc[t] = "runlock" /\ op[t].call = "Clone" => op[t].copy = op[t].mirror
                        /\ op[t].call = "Iter" /\ pc[t] # "idle" =>
                              op[t].copy \subseteq Pairs("forward", maps["forward"])
      BY DEF ReadersSeeOneState
    <2>1. Calling(t, pc[t], op[t]) /\ Seen(t, pc[t], op[t]) /\ pc[t] \in Labels
      BY DEF IInv, Readers, CallTypes
    <2>2. pc[t] = "runlock" /\ op[t].call = "Clone" => op[t].copy = op[t].mirror
      BY <2>1 DEF Seen
    <2>3. ASSUME op[t].call = "Iter", pc[t] # "idle"
          PROVE  op[t].copy \subseteq Pairs("forward", maps["forward"])
      <3>1. pc[t] \in ReadingLabels \cup {"rlock"}
        <4>1. "Iter" \in ReadCalls
          BY DEF ReadCalls
        <4>2. pc[t] \notin ChangingLabels \cup {"lock", "drain"}
          BY <2>1, <2>3, <4>1 DEF Calling
        <4> QED
          BY <2>1, <2>3, <4>2 DEF Labels, ReadLabels, ChangingLabels, ReadingLabels
      <3>2. CASE pc[t] \in ReadingLabels
        BY <2>1, <2>3, <3>2 DEF Seen
      <3>3. CASE pc[t] = "rlock"
        BY <2>1, <3>3 DEF Calling
      <3> QED
        BY <3>1, <3>2, <3>3
    <2> QED
      BY <2>2, <2>3
  <1> QED
    BY <1>1, IInvHolds, PTL

---------------------------------------------------------------------------------
(***************************************************************************)
(* The refinement: a writing method takes effect when it unlocks.          *)
(***************************************************************************)

\* What a writing method has done to the entries b is one operation of BiMap.
\* Through a reversed wrapper, removing a value is removing the key that has it.
LEMMA OutcomeIsOperation ==
    ASSUME NEW w \in Views, NEW f \in Map(w), NEW b \in SUBSET (Keys \X Values),
           OneToOne(w, b), Outcome(w, f, b)
    PROVE  \/ Pairs(w, f) = b
           \/ \E k \in Keys, v \in Values : Pairs(w, f) = {e \in b : e[1] # k /\ e[2] # v} \cup {<<k, v>>}
           \/ \E k \in Keys : Pairs(w, f) = {e \in b : e[1] # k}
           \/ Pairs(w, f) = {}
  <1> DEFINE n == Pairs(w, f)
  <1>1. /\ n \in SUBSET (Keys \X Values)
        /\ \A k \in KeysOf(w), v \in KeysOf(Swap(w)) : (Entry(w, k, v) \in n) <=> (f[k] = v)
    BY PairsMember
  <1> HIDE DEF n
  <1>2. CASE FirstIs(w, f, b)
    <2>1. n = b
      BY <1>1, <1>2, SameEntries DEF FirstIs
    <2> QED
      BY <2>1 DEF n
  <1>3. ASSUME NEW k \in KeysOf(w), NEW v \in KeysOf(Swap(w)), FirstPut(w, f, b, k, v)
        PROVE  \E i \in Keys, j \in Values : n = {e \in b : e[1] # i /\ e[2] # j} \cup {<<i, j>>}
    <2> DEFINE i == Entry(w, k, v)[1]
               j == Entry(w, k, v)[2]
               m == {e \in b : e[1] # i /\ e[2] # j} \cup {<<i, j>>}
    <2>1. i \in Keys /\ j \in Values /\ Entry(w, k, v) = <<i, j>>
      BY EntryShape
    <2>2. ASSUME NEW l \in KeysOf(w), NEW u \in KeysOf(Swap(w))
          PROVE  /\ Entry(w, l, u) = <<i, j>> <=> (l = k /\ u = v)
                 /\ (Entry(w, l, u)[1] # i /\ Entry(w, l, u)[2] # j) <=> (l # k /\ u # v)
      BY DEF Entry
    <2> HIDE DEF i, j
    <2>3. m \in SUBSET (Keys \X Values)
      BY <2>1
    <2>4. ASSUME NEW l \in KeysOf(w), NEW u \in KeysOf(Swap(w))
          PROVE  (Entry(w, l, u) \in n) <=> (Entry(w, l, u) \in m)
      <3>1. (Entry(w, l, u) \in n) <=> \/ l = k /\ u = v
                                       \/ l # k /\ u # v /\ Entry(w, l, u) \in b
        BY <1>1, <1>3 DEF FirstPut
      <3> QED
        BY <2>2, <3>1
    <2> HIDE DEF m
    <2>5. n = m
      BY <1>1, <2>3, <2>4, SameEntries
    <2> QED
      BY <2>1, <2>5 DEF m
  <1>4. ASSUME NEW k \in KeysOf(w), FirstPut(w, f, b, k, None)
        PROVE  n = b \/ \E i \in Keys : n = {e \in b : e[1] # i}
    <2>1. \A l \in KeysOf(w), u \in KeysOf(Swap(w)) :
             (Entry(w, l, u) \in n) <=> (l # k /\ Entry(w, l, u) \in b)
      <3>1. None \notin KeysOf(Swap(w))
        BY Apart
      <3> QED
        BY <1>1, <1>4, <3>1 DEF FirstPut
    <2>2. CASE \A u \in KeysOf(Swap(w)) : Entry(w, k, u) \notin b
      <3>1. n = b
        BY <1>1, <2>1, <2>2, SameEntries
      <3> QED
        BY <3>1
    <2>3. CASE \E u \in KeysOf(Swap(w)) : Entry(w, k, u) \in b
      <3>1. PICK v \in KeysOf(Swap(w)) : Entry(w, k, v) \in b
        BY <2>3
      <3> DEFINE i == Entry(w, k, v)[1]
                 m == {e \in b : e[1] # i}
      <3>2. i \in Keys
        BY EntryShape
      <3>3. ASSUME NEW l \in KeysOf(w), NEW u \in KeysOf(Swap(w)), Entry(w, l, u) \in b
            PROVE  Entry(w, l, u)[1] # i <=> l # k
        <4>1. l = k <=> u = v
          BY <3>1, <3>3 DEF OneToOne
        <4> QED
          BY <4>1 DEF Entry
      <3> HIDE DEF i
      <3>4. n = m
        <4>1. m \in SUBSET (Keys \X Values)
          OBVIOUS
        <4>2. \A l \in KeysOf(w), u \in KeysOf(Swap(w)) : (Entry(w, l, u) \in n) <=> (Entry(w, l, u) \in m)
          BY <2>1, <3>3
        <4> HIDE DEF m
        <4> QED
          BY <1>1, <4>1, <4>2, SameEntries
      <3> QED
        BY <3>2, <3>4
    <2> QED
      BY <2>2, <2>3
  <1>5. CASE f = Empty(w)
    <2>1. \A k \in KeysOf(w), v \in KeysOf(Swap(w)) : Entry(w, k, v) \notin n
      BY <1>1, <1>5, Apart DEF Empty
    <2>2. n = {}
      BY <1>1, <2>1, EntryShape
    <2> QED
      BY <2>2 DEF n
  <1> QED
    BY <1>2, <1>3, <1>4, <1>5 DEF Outcome, n

\* While somebody changes the maps the others observe the entries from before.
LEMMA ObservedBefore ==
    ASSUME OneView, IInv, NEW t \in Threads, pc[t] \in ChangingLabels
    PROVE  Observable = op[t].before
  <1>1. \A s \in Threads : pc[s] \in ChangingLabels => s = t
    BY DEF IInv, Exclusion, OneView
  <1>2. \A s \in Threads : Changing(s) <=> s = t
    BY <1>1 DEF Changing, ChangingLabels
  <1>3. (CHOOSE s \in Threads : Changing(s)) = t
    BY <1>2
  <1> QED
    BY <1>2, <1>3 DEF Observable

LEMMA ObservedBeforePrimed ==
    ASSUME OneView, IInv', NEW t \in Threads, pc'[t] \in ChangingLabels
    PROVE  Observable' = op'[t].before
  <1>1. \A s \in Threads : pc'[s] \in ChangingLabels => s = t
    BY DEF IInv, Exclusion, OneView
  <1>2. \A s \in Threads : Changing(s)' <=> s = t
    BY <1>1 DEF Changing, ChangingLabels
  <1>3. (CHOOSE s \in Threads : Changing(s)') = t
    BY <1>2
  <1> QED
    BY <1>2, <1>3 DEF Observable

LEMMA ObservedNow ==
    /\ (\A t \in Threads : pc[t] \notin ChangingLabels) => Observable = Pairs("forward", maps["forward"])
    /\ (\A t \in Threads : pc'[t] \notin ChangingLabels) => Observable' = Pairs("forward", maps'["forward"])
  BY DEF Observable, Changing, ChangingLabels

\* A step inside a writing method is invisible.
LEMMA InvisibleWriter ==
    ASSUME OneView, IInv, IInv', NEW t \in Threads, pc[t] \in ChangingLabels, pc'[t] \in ChangingLabels,
           op'[t].before = op[t].before
    PROVE  Observable' = Observable
  BY ObservedBefore, ObservedBeforePrimed

\* So is a step of anybody who changes nothing.
LEMMA InvisibleReader ==
    ASSUME OneView, IInv, IInv', NEW t \in Threads, pc[t] \notin ChangingLabels, pc'[t] \notin ChangingLabels,
           \A s \in Threads : s # t => pc'[s] = pc[s] /\ op'[s] = op[s],
           maps' = maps
    PROVE  Observable' = Observable
  <1>1. CASE \E s \in Threads : pc[s] \in ChangingLabels
    <2>1. PICK s \in Threads : pc[s] \in ChangingLabels
      BY <1>1
    <2>2. pc'[s] \in ChangingLabels /\ op'[s] = op[s]
      BY <2>1
    <2> QED
      BY <2>1, <2>2, ObservedBefore, ObservedBeforePrimed
  <1>2. CASE \A s \in Threads : pc[s] \notin ChangingLabels
    <2>1. \A s \in Threads : pc'[s] \notin ChangingLabels
      BY <1>2
    <2> QED
      BY <1>2, <2>1, ObservedNow
  <1> QED
    BY <1>1, <1>2

LEMMA UnlockIsOperation ==
    ASSUME OneView, IInv, IInv', NEW t \in Threads, Unlock(t)
    PROVE  Abstract!Next \/ Observable' = Observable
  <1> DEFINE w == View[t]
             n == Pairs(w, maps[w])
             b == op[t].before
  <1>1. pc[t] = "unlock" /\ maps' = maps /\ \A s \in Threads : pc'[s] \notin ChangingLabels
    BY UnlockKeeps
  <1>2. pc[t] \in ChangingLabels
    BY <1>1 DEF ChangingLabels
  <1>3. /\ w \in Views /\ MapTypes /\ maps[w] \in Map(w) /\ b \in SUBSET (Keys \X Values)
        /\ OneToOne(w, b) /\ Outcome(w, maps[w], b) /\ Linked(w, maps[w], maps[Swap(w)])
    BY <1>1, <1>2, WriterFacts DEF Content, CallRecord
  <1>4. Observable = b /\ Observable' = n
    BY <1>1, <1>2, <1>3, ObservedBefore, ObservedNow, InverseIsLinked
  <1>5. \/ n = b
        \/ \E k \in Keys, v \in Values : n = {e \in b : e[1] # k /\ e[2] # v} \cup {<<k, v>>}
        \/ \E k \in Keys : n = {e \in b : e[1] # k}
        \/ n = {}
    BY <1>3, OutcomeIsOperation
  <1> HIDE DEF n, b
  <1> QED
    BY <1>4, <1>5 DEF Abstract!Next, Abstract!Put, Abstract!Remove, Abstract!Clear

\* The one step that everybody sees is Unlock.
LEMMA StepImplements ==
    OneView /\ IInv /\ IInv' /\ [Next]_vars => [Abstract!Next]_Observable
  <1> SUFFICES ASSUME OneView, IInv, IInv', [Next]_vars
               PROVE  Abstract!Next \/ Observable' = Observable
    OBVIOUS
  <1>1. CASE Next
    <2>0. PICK t \in Threads : CallMethod(t) \/ Acquire(t) \/ Work(t)
      BY <1>1 DEF Next
    <2>1. pc \in [Threads -> Labels] /\ op \in [Threads -> CallRecord]
      BY DEF IInv, CallTypes
    <2>2. ASSUME CallMethod(t) \/ Acquire(t) \/ RUnlock(t) \/ Get(t) \/ Yield(t) \/ Clone(t)
          PROVE  Observable' = Observable
      <3>1. maps' = maps /\ \A s \in Threads : s # t => pc'[s] = pc[s] /\ op'[s] = op[s]
        BY <2>1, <2>2 DEF CallMethod, Acquire, Lock, RLock, NestedGet, RUnlock, Get, Yield, Clone, Goto
      <3>2. pc[t] \notin ChangingLabels
        BY <2>2 DEF CallMethod, Acquire, Lock, RLock, NestedGet, RUnlock, Get, Yield, Clone,
                    ChangingLabels, WriteLabels
      <3>3. pc'[t] \notin ChangingLabels
        <4>1. RLock(t) => FirstRead(op[t].call) \in {"get", "yield", "copy"}
          <5>1. pc[t] = "rlock" => op[t].call \in ReadCalls
            BY DEF IInv, Readers, Calling
          <5> QED
            BY <5>1 DEF RLock, FirstRead, ReadCalls
        <4>2. pc'[t] \in {"rlock", "lock", "drain", "get", "yield", "copy", "nestedRUnlock", "idle",
                          "runlock", "nestedRLock", "copyReverse"}
          BY <2>1, <2>2, <4>1 DEF CallMethod, Acquire, Lock, RLock, NestedGet, RUnlock, Get, Yield, Clone, Goto
        <4> QED
          BY <4>2 DEF ChangingLabels, WriteLabels
      <3> QED
        BY <3>1, <3>2, <3>3, InvisibleReader
    <2>3. ASSUME Evict(t) \/ Store(t) \/ Unlink(t) \/ Link(t) \/ Remove(t) \/ Clear(t) \/ Lookup(t) \/ Callback(t)
          PROVE  Observable' = Observable
      <3>1. op'[t].before = op[t].before
        <4>1. op[t] \in CallRecord
          BY <2>1
        <4>2. \/ op' = op
              \/ \E v : op' = [op EXCEPT ![t].old = v]
              \/ \E v : op' = [op EXCEPT ![t].val = v]
          BY <2>3 DEF Evict, Store, Unlink, Link, Remove, Clear, Lookup, Callback
        <4> QED
          BY <2>1, <4>1, <4>2 DEF CallRecord
      <3>2. pc[t] \in ChangingLabels /\ pc'[t] \in ChangingLabels
        BY <2>1, <2>3 DEF Evict, Store, Unlink, Link, Remove, Clear, Lookup, Callback, Goto,
                          ChangingLabels, WriteLabels
      <3> QED
        BY <3>1, <3>2, InvisibleWriter
    <2>4. ASSUME Drain(t) PROVE Observable' = Observable
      <3>1. \A s \in Threads : pc[s] \notin ChangingLabels
        BY <2>4, DrainKeeps
      <3>2. op'[t].before = Pairs("forward", maps["forward"])
        BY <2>1, <2>4 DEF Drain, CallRecord
      <3>3. pc'[t] \in ChangingLabels
        <4>1. op[t].call \in Calls \ ReadCalls
          BY <2>4 DEF Drain, IInv, Readers, Calling
        <4>2. FirstStep(op[t].call) \in {"evict", "remove", "clear", "lookup"}
          BY <4>1 DEF FirstStep, Calls, ReadCalls, Computes
        <4>3. pc'[t] = FirstStep(op[t].call)
          BY <2>1, <2>4 DEF Drain, Goto
        <4> QED
          BY <4>2, <4>3 DEF ChangingLabels, WriteLabels
      <3> QED
        BY <3>1, <3>2, <3>3, ObservedNow, ObservedBeforePrimed
    <2>5. ASSUME Unlock(t) PROVE Abstract!Next \/ Observable' = Observable
      BY <2>5, UnlockIsOperation
    <2> QED
      BY <2>0, <2>2, <2>3, <2>4, <2>5 DEF Work
  <1>2. CASE UNCHANGED vars
    BY <1>2 DEF vars, Observable, Changing
  <1> QED
    BY <1>1, <1>2

\* Put, Remove, Clear and the three Compute methods are indivisible: what the
\* others can observe changes by one operation of BiMap, when the method unlocks.
THEOREM ImplementsBiMapHolds ==
    ASSUME OneView
    PROVE  Spec => ImplementsBiMap
  <1>1. Init => Abstract!Init
    <2> SUFFICES ASSUME Init PROVE Observable = {}
      BY DEF Abstract!Init
    <2>1. \A t \in Threads : pc[t] \notin ChangingLabels
      BY DEF Init, ChangingLabels, WriteLabels
    <2>2. Pairs("forward", maps["forward"]) = {}
      BY DEF Init, Pairs, Empty, Views
    <2> QED
      BY <2>1, <2>2, ObservedNow
  <1>2. IInv /\ IInv' /\ [Next]_vars => [Abstract!Next]_Observable
    BY StepImplements
  <1> QED
    BY <1>1, <1>2, IInvHolds, PTL DEF Spec, ImplementsBiMap, Abstract!Spec

=================================================================================
