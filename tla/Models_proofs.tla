--------------------------- MODULE Models_proofs ---------------------------
(***************************************************************************)
(* More theorems about the components of MCComponents: the multiton, the   *)
(* state machine, what the signal classes remember, the objects that work  *)
(* on descriptors, and times.                                              *)
(***************************************************************************)
EXTENDS MCComponents, FiniteSetTheorems, SequenceTheorems, TLAPS

\* What each part needs of the constants.
LEMMA MultitonConstants == nil \notin MtonInstances
BY PartsAssumption
LEMMA SignalConstants == nil \notin Sig!Actions
BY PartsAssumption DEF Sig!Actions
LEMMA MaskConstants == nil \notin Mask!Objects
BY PartsAssumption DEF Mask!Objects

\* A sequence without its last element.
LEMMA FrontOf ==
  ASSUME NEW S, NEW s \in Seq(S), s # <<>>
  PROVE  /\ SubSeq(s, 1, Len(s) - 1) \in Seq(S) /\ Len(SubSeq(s, 1, Len(s) - 1)) = Len(s) - 1
         /\ \A i \in 1..Len(s) - 1 : SubSeq(s, 1, Len(s) - 1)[i] = s[i]
<1>1. PICK n \in Nat : n = Len(s) - 1
  OBVIOUS
<1>2. 1 \in Int /\ n \in Int /\ n - 1 + 1 = n /\ \A i \in 1..n : s[i] \in S /\ 1 + i - 1 = i
  BY <1>1
<1>3. /\ SubSeq(s, 1, n) \in Seq(S)
      /\ Len(SubSeq(s, 1, n)) = IF 1 <= n THEN n - 1 + 1 ELSE 0
      /\ \A i \in 1..n - 1 + 1 : SubSeq(s, 1, n)[i] = s[1 + i - 1]
  BY <1>2, SubSeqProperties
<1>4. /\ SubSeq(s, 1, n) \in Seq(S) /\ Len(SubSeq(s, 1, n)) = n
      /\ \A i \in 1..n : SubSeq(s, 1, n)[i] = s[i]
  BY <1>2, <1>3
<1> QED BY <1>1, <1>4


(***************************************************************************)
(* The multiton.  Where a thread stands says whether it has an instance in *)
(* hand, has the mutex and has an iterator; an instance in hand is in no   *)
(* map and in nobody else's hand, and one in the map is there once.        *)
(***************************************************************************)
InHand == {"getEmplace", "delDelete", "resetFind", "resetAdd", "resetLock", "resetLocked",
           "resetDelete", "resetEmplace", "resetWrite"}
InLock == {"getLocked", "getTake", "getNew", "getEmplace", "delLocked", "delErase", "delDelete",
           "resetLocked", "resetDelete", "resetEmplace", "resetWrite", "unlock"}
AtNode == {"getTake", "delErase", "resetDelete", "resetWrite"}
WithIterator == AtNode \cup {"getRead", "delLock", "delLocked", "resetLock", "resetLocked"}
ToEmplace == {"getNew", "getEmplace", "resetEmplace"}

MultitonTypes == Multi1!TypeOK /\ key \in [Procs -> MtonKeys] /\ DOMAIN mton_at = Procs

PlaceTrue(t) ==
  /\ instance[t] # nil <=> mton_at[t] \in InHand
  /\ mton_mutex = t <=> mton_at[t] \in InLock
  /\ mton_at[t] \in AtNode => mton_it[t] = "node"
  /\ mton_it[t] # "end" => mton_at[t] \in WithIterator
  /\ mton_it[t] = "node" => instance_map_[key[t]] # nil
  /\ mton_at[t] \in ToEmplace /\ instance_map_[key[t]] # nil => key[t] \in unlocked
  /\ mton_at[t] = "resetWrite" => instance_map_[key[t]] \notin mton_alive

HandTrue(t) ==
  instance[t] # nil =>
    /\ instance[t] \in mton_alive \ mton_lost
    /\ \A k \in MtonKeys : instance_map_[k] # instance[t]
    /\ \A u \in Procs : instance[t] = instance[u] => t = u

MapTrue(k) ==
  instance_map_[k] # nil =>
    /\ instance_map_[k] \in used \ mton_lost
    /\ \A l \in MtonKeys : instance_map_[k] = instance_map_[l] => k = l

KeyTrue(k) ==
  /\ MapTrue(k)
  /\ instance_map_[k] # nil =>
       instance_map_[k] \in mton_alive \/ \E t \in Procs : mton_at[t] = "resetWrite" /\ key[t] = k
  /\ mton_given[k] \subseteq {instance_map_[k]} \cup mton_lost \cup strays

MultitonFound ==
  \A i \in mton_alive \ mton_lost : (\E k \in MtonKeys : instance_map_[k] = i) \/ \E t \in Procs : instance[t] = i

MultitonInv ==
  /\ MultitonTypes
  /\ \A t \in Procs : PlaceTrue(t) /\ HandTrue(t)
  /\ \A k \in MtonKeys : KeyTrue(k)
  /\ MultitonFound

LEMMA MultitonStart == MtonKeys # {} /\ Multi1!Init => MultitonInv
<1> SUFFICES ASSUME MtonKeys # {}, Multi1!Init PROVE MultitonInv
  OBVIOUS
<1>1. MultitonTypes
  BY MultitonConstants DEF Multi1!Init, MultitonTypes, Multi1!TypeOK
<1>2. ASSUME NEW t \in Procs PROVE PlaceTrue(t) /\ HandTrue(t)
  <2>1. t # nil
    BY PartsAssumption
  <2> QED BY <2>1 DEF Multi1!Init, PlaceTrue, HandTrue, InHand, InLock, AtNode, ToEmplace
<1>3. ASSUME NEW k \in MtonKeys PROVE KeyTrue(k)
  BY DEF Multi1!Init, KeyTrue, MapTrue
<1>4. MultitonFound
  BY DEF Multi1!Init, MultitonFound
<1> QED BY <1>1, <1>2, <1>3, <1>4 DEF MultitonInv

LEMMA MultitonMeans == MultitonInv => Multi1!OnePerKey
BY DEF MultitonInv, PlaceTrue, HandTrue, KeyTrue, MultitonFound, Multi1!OnePerKey, Multi1!Here, AtNode, ToEmplace

\* Calls that touch no instance: only the place, the iterator and the mutex
\* change, and no reset leaves the place before its write.
LEMMA MultitonPlace ==
  ASSUME MultitonInv, NEW t \in Procs, NEW place, place # "resetWrite", mton_at[t] # "resetWrite",
         Multi1!Goto(t, place), key' \in [Procs -> MtonKeys], \A u \in Procs \ {t} : key'[u] = key[u],
         mton_it' \in [Procs -> {"end", "node", "gone"}], \A u \in Procs \ {t} : mton_it'[u] = mton_it[u],
         mton_mutex' = mton_mutex \/ {mton_mutex, mton_mutex'} = {nil, t},
         PlaceTrue(t)',
         UNCHANGED <<instance_map_, instance, mton_alive, used, mton_given, mton_lost, strays, unlocked>>
  PROVE  MultitonInv'
<1>1. MultitonTypes'
  BY DEF MultitonInv, MultitonTypes, Multi1!TypeOK, Multi1!Goto
<1>2. \A u \in Procs : PlaceTrue(u)' /\ HandTrue(u)'
  <2>1. ASSUME NEW u \in Procs \ {t}
        PROVE  PlaceTrue(u)'
    <3>1. mton_at'[u] = mton_at[u] /\ (mton_mutex' = u <=> mton_mutex = u)
      BY MultitonConstants, PartsAssumption DEF MultitonInv, MultitonTypes, Multi1!Goto
    <3> QED BY <2>1, <3>1 DEF MultitonInv, PlaceTrue
  <2>2. ASSUME NEW u \in Procs
        PROVE  HandTrue(u)'
    BY DEF MultitonInv, HandTrue
  <2> QED BY <2>1, <2>2
<1>3. \A k \in MtonKeys : KeyTrue(k)'
  <2>1. \A u \in Procs : mton_at[u] = "resetWrite" => mton_at'[u] = "resetWrite" /\ key'[u] = key[u]
    BY DEF Multi1!Goto, MultitonInv, MultitonTypes
  <2> QED BY <2>1 DEF MultitonInv, KeyTrue, MapTrue
<1>4. MultitonFound'
  BY DEF MultitonInv, MultitonFound
<1> QED BY <1>1, <1>2, <1>3, <1>4 DEF MultitonInv

\* The steps of all calls that are of this kind.
LEMMA MultitonQuiet ==
  ASSUME MultitonInv, NEW t \in Procs
  PROVE  /\ \A k \in MtonKeys, place \in {"get", "del", "reset"} : Multi1!Call(t, k, place) => MultitonInv'
         /\ \A l \in {<<"getLock", "getLocked">>, <<"delLock", "delLocked">>, <<"resetLock", "resetLocked">>} :
              Multi1!lock(t, l[1], l[2]) => MultitonInv'
         /\ Multi1!unlock(t) => MultitonInv'
         /\ \A f \in {<<"get", "getRead", "getLock">>, <<"getLocked", "getTake", "getNew">>, <<"del", "delLock", "idle">>,
                      <<"delLocked", "delErase", "unlock">>, <<"resetFind", "resetLock", "resetAdd">>,
                      <<"resetLocked", "resetDelete", "resetEmplace">>} :
              Multi1!find(t, f[1], f[2], f[3]) => MultitonInv'
<1> USE DEF MultitonInv, MultitonTypes, Multi1!TypeOK
<1>0. key \in [Procs -> MtonKeys] /\ mton_it \in [Procs -> {"end", "node", "gone"}] /\ DOMAIN mton_at = Procs
      /\ t # nil /\ PlaceTrue(t)
  BY PartsAssumption
<1>1. ASSUME NEW k \in MtonKeys, NEW place \in {"get", "del", "reset"}, Multi1!Call(t, k, place)
      PROVE  MultitonInv'
  <2>1. mton_it[t] = "end" /\ mton_mutex # t /\ instance[t] = nil
    BY <1>0, <1>1 DEF Multi1!Call, PlaceTrue, InHand, InLock, AtNode, WithIterator
  <2>2. PlaceTrue(t)'
    BY <1>0, <1>1, <2>1 DEF Multi1!Call, Multi1!Goto, PlaceTrue, InHand, InLock, AtNode, ToEmplace
  <2> QED BY <1>0, <1>1, <2>2, MultitonPlace DEF Multi1!Call, Multi1!history
<1>2. ASSUME NEW l \in {<<"getLock", "getLocked">>, <<"delLock", "delLocked">>, <<"resetLock", "resetLocked">>},
             Multi1!lock(t, l[1], l[2])
      PROVE  MultitonInv'
  <2>1. PlaceTrue(t)'
    BY <1>0, <1>2 DEF Multi1!lock, Multi1!Goto, PlaceTrue, InHand, InLock, AtNode, WithIterator, ToEmplace
  <2>2. l[2] # "resetWrite" /\ mton_at[t] # "resetWrite"
    BY <1>2 DEF Multi1!lock
  <2> QED BY <1>0, <1>2, <2>1, <2>2, MultitonPlace DEF Multi1!lock, Multi1!history
<1>3. ASSUME Multi1!unlock(t)
      PROVE  MultitonInv'
  <2>1. mton_mutex = t
    BY <1>0, <1>3 DEF Multi1!unlock, PlaceTrue, InLock
  <2>2. PlaceTrue(t)'
    BY <1>0, <1>3 DEF Multi1!unlock, Multi1!Goto, PlaceTrue, InHand, InLock, AtNode, WithIterator, ToEmplace
  <2> QED BY <1>0, <1>3, <2>1, <2>2, MultitonPlace DEF Multi1!unlock, Multi1!history
<1>4. ASSUME NEW f \in {<<"get", "getRead", "getLock">>, <<"getLocked", "getTake", "getNew">>, <<"del", "delLock", "idle">>,
                        <<"delLocked", "delErase", "unlock">>, <<"resetFind", "resetLock", "resetAdd">>,
                        <<"resetLocked", "resetDelete", "resetEmplace">>},
             Multi1!find(t, f[1], f[2], f[3])
      PROVE  MultitonInv'
  <2>1. PICK place : /\ place = IF instance_map_[key[t]] = nil THEN f[3] ELSE f[2]
                     /\ Multi1!Goto(t, place)
    BY <1>4 DEF Multi1!find, Multi1!Here
  <2>2. /\ mton_it' = [mton_it EXCEPT ![t] = IF instance_map_[key[t]] = nil THEN "end" ELSE "node"]
        /\ mton_at[t] = f[1]
        /\ UNCHANGED <<instance_map_, mton_mutex, key, instance, mton_alive, used, mton_given, mton_lost, strays, unlocked>>
    BY <1>4 DEF Multi1!find, Multi1!Here, Multi1!history
  <2>3. mton_at'[t] = place /\ mton_it'[t] = IF instance_map_[key[t]] = nil THEN "end" ELSE "node"
    BY <1>0, <2>1, <2>2 DEF Multi1!Goto
  <2>4. PlaceTrue(t)'
    BY <1>0, <2>1, <2>2, <2>3 DEF PlaceTrue, InHand, InLock, AtNode, WithIterator, ToEmplace
  <2>5. place # "resetWrite" /\ mton_at[t] # "resetWrite"
    BY <2>1, <2>2
  <2> QED BY <1>0, <2>1, <2>2, <2>4, <2>5, MultitonPlace
<1> QED BY <1>1, <1>2, <1>3, <1>4

\* A new instance is in nobody's hand and in no map.
LEMMA MultitonNew ==
  ASSUME MultitonInv, NEW t \in Procs, NEW from, NEW to, mton_at[t] = from, Multi1!Goto(t, to), Multi1!Construct(t),
         <<from, to>> \in {<<"getNew", "getEmplace">>, <<"reset", "resetFind">>},
         UNCHANGED <<instance_map_, mton_mutex, key, mton_it, mton_given, mton_lost, strays, unlocked>>
  PROVE  MultitonInv'
<1>1. PICK i \in MtonInstances \ used :
        used' = used \cup {i} /\ mton_alive' = mton_alive \cup {i} /\ instance' = [instance EXCEPT ![t] = i]
  BY DEF Multi1!Construct, Multi1!Hold
<1>2. /\ i \notin mton_alive /\ i \notin mton_lost /\ i # nil
      /\ \A k \in MtonKeys : instance_map_[k] # i
      /\ \A u \in Procs : instance[u] # i
  BY <1>1, MultitonConstants DEF MultitonInv, MultitonTypes, Multi1!TypeOK, KeyTrue, MapTrue, HandTrue
<1>3. MultitonTypes'
  BY <1>1 DEF MultitonInv, MultitonTypes, Multi1!TypeOK, Multi1!Goto
<1>4. instance[t] = nil /\ instance'[t] = i /\ \A u \in Procs \ {t} : instance'[u] = instance[u]
  BY <1>1 DEF MultitonInv, MultitonTypes, Multi1!TypeOK, PlaceTrue, InHand
<1>5. ASSUME NEW u \in Procs
      PROVE  PlaceTrue(u)'
  <2>1. PlaceTrue(u) /\ key[u] \in MtonKeys /\ mton_at'[u] = IF u = t THEN to ELSE mton_at[u]
    BY DEF MultitonInv, MultitonTypes, Multi1!Goto
  <2>2. instance_map_[key[u]] \in mton_alive' => instance_map_[key[u]] \in mton_alive
    BY <1>1, <1>2, <2>1
  <2>3. CASE u = t
    BY <1>2, <1>4, <2>1, <2>3 DEF PlaceTrue, InHand, InLock, AtNode, WithIterator, ToEmplace
  <2>4. CASE u # t
    BY <1>4, <2>1, <2>2, <2>4 DEF PlaceTrue
  <2> QED BY <2>3, <2>4
<1>6. \A u \in Procs : HandTrue(u)'
  BY <1>1, <1>2, <1>4 DEF MultitonInv, HandTrue
<1>7. \A k \in MtonKeys : KeyTrue(k)'
  <2>1. \A u \in Procs : mton_at[u] = "resetWrite" => mton_at'[u] = "resetWrite"
    BY DEF Multi1!Goto, MultitonInv, MultitonTypes
  <2> QED BY <1>1, <1>2, <2>1 DEF MultitonInv, MultitonTypes, Multi1!TypeOK, KeyTrue, MapTrue
<1>8. MultitonFound'
  <2>1. ASSUME NEW j \in mton_alive' \ mton_lost', j # i
        PROVE  (\E k \in MtonKeys : instance_map_'[k] = j) \/ \E u \in Procs : instance'[u] = j
    <3>1. (\E k \in MtonKeys : instance_map_[k] = j) \/ \E u \in Procs : instance[u] = j
      BY <1>1, <2>1 DEF MultitonInv, MultitonFound
    <3>2. j # nil
      BY <1>1, <2>1, MultitonConstants DEF MultitonInv, MultitonTypes, Multi1!TypeOK
    <3> QED BY <1>4, <3>1, <3>2
  <2> QED BY <1>4, <2>1 DEF MultitonFound
<1> QED BY <1>3, <1>5, <1>6, <1>7, <1>8 DEF MultitonInv

\* emplace puts the instance in hand into the map, or loses it.
LEMMA MultitonEmplace ==
  ASSUME MultitonInv, NEW t \in Procs, NEW from, NEW to, mton_at[t] = from, Multi1!Goto(t, to), Multi1!emplace(t),
         <<from, to>> \in {<<"getEmplace", "unlock">>, <<"resetAdd", "idle">>, <<"resetEmplace", "unlock">>},
         mton_given' = mton_given \/ Multi1!Give(t, instance[t]),
         UNCHANGED <<mton_mutex, key, mton_it, mton_alive, used, strays>>
  PROVE  MultitonInv'
<1> DEFINE i == instance[t]
<1>1. /\ i # nil /\ i \in mton_alive \ mton_lost /\ i \in MtonInstances /\ i \in used
      /\ (\A k \in MtonKeys : instance_map_[k] # i) /\ \A u \in Procs \ {t} : instance[u] # i
  BY DEF MultitonInv, MultitonTypes, Multi1!TypeOK, PlaceTrue, HandTrue, InHand
<1>2. /\ key[t] \in MtonKeys /\ instance' = [instance EXCEPT ![t] = nil]
      /\ instance'[t] = nil /\ \A u \in Procs \ {t} : instance'[u] = instance[u]
  BY DEF MultitonInv, MultitonTypes, Multi1!TypeOK, Multi1!emplace, Multi1!Hold
<1>3. \A u \in Procs : mton_at'[u] = IF u = t THEN to ELSE mton_at[u]
  BY DEF MultitonInv, MultitonTypes, Multi1!Goto
<1>4. \A k \in MtonKeys : mton_given'[k] \subseteq mton_given[k] \cup (IF k = key[t] THEN {i} ELSE {})
  BY <1>2 DEF MultitonInv, MultitonTypes, Multi1!TypeOK, Multi1!Give
<1>5. mton_given' \in [MtonKeys -> SUBSET MtonInstances] /\ DOMAIN mton_at' = Procs
  BY <1>1, <1>2 DEF MultitonInv, MultitonTypes, Multi1!TypeOK, Multi1!Give, Multi1!Goto
<1>6. mton_mutex = t <=> from # "resetAdd"
  BY DEF MultitonInv, PlaceTrue, InLock
<1>7. CASE instance_map_[key[t]] = nil
  <2>1. /\ instance_map_' = [instance_map_ EXCEPT ![key[t]] = i] /\ mton_lost' = mton_lost
        /\ unlocked' = IF mton_mutex = t THEN unlocked \ {key[t]} ELSE unlocked \cup {key[t]}
    BY <1>7 DEF Multi1!emplace, Multi1!Here
  <2>2. \A k \in MtonKeys : instance_map_'[k] = IF k = key[t] THEN i ELSE instance_map_[k]
    BY <2>1 DEF MultitonInv, MultitonTypes, Multi1!TypeOK
  <2> HIDE DEF i
  <2>3. MultitonTypes'
    BY <1>1, <1>2, <1>5, <2>1 DEF MultitonInv, MultitonTypes, Multi1!TypeOK
  <2>4. ASSUME NEW u \in Procs
        PROVE  PlaceTrue(u)'
    <3>1. key[u] \in MtonKeys /\ PlaceTrue(u) /\ PlaceTrue(t)
      BY DEF MultitonInv, MultitonTypes
    <3>2. CASE u = t
      BY <1>1, <1>2, <1>3, <1>6, <2>2, <3>1, <3>2 DEF PlaceTrue, InHand, InLock, AtNode, WithIterator, ToEmplace
    <3>3. CASE u # t
      <4>1. mton_at[u] \in ToEmplace => mton_mutex = u
        BY <3>1 DEF PlaceTrue, ToEmplace, InLock
      <4>2. /\ mton_at'[u] = mton_at[u] /\ instance'[u] = instance[u]
            /\ instance_map_'[key[u]] = IF key[u] = key[t] THEN i ELSE instance_map_[key[u]]
        BY <1>2, <1>3, <2>2, <3>1, <3>3
      <4>3. CASE key[u] = key[t]
        BY <1>1, <1>7, <2>1, <3>1, <3>3, <4>1, <4>2, <4>3 DEF PlaceTrue, AtNode
      <4>4. CASE key[u] # key[t]
        BY <2>1, <3>1, <4>2, <4>4 DEF PlaceTrue
      <4> QED BY <4>3, <4>4
    <3> QED BY <3>2, <3>3
  <2>5. ASSUME NEW u \in Procs
        PROVE  HandTrue(u)'
    BY <1>1, <1>2, <2>1, <2>2 DEF MultitonInv, HandTrue, i
  <2>6. ASSUME NEW k \in MtonKeys
        PROVE  KeyTrue(k)'
    <3>1. MapTrue(k)'
      BY <1>1, <2>1, <2>2 DEF MultitonInv, KeyTrue, MapTrue
    <3>2. mton_given'[k] \subseteq {instance_map_'[k]} \cup mton_lost' \cup strays'
      <4>1. mton_given[k] \subseteq {instance_map_[k]} \cup mton_lost \cup strays /\ nil \notin mton_given[k]
        BY MultitonConstants DEF MultitonInv, MultitonTypes, Multi1!TypeOK, KeyTrue
      <4> QED BY <1>4, <1>7, <2>1, <2>2, <4>1
    <3>3. \A u \in Procs : mton_at[u] = "resetWrite" => mton_at'[u] = "resetWrite"
      BY <1>3
    <3> QED BY <1>1, <2>1, <2>2, <3>1, <3>2, <3>3 DEF MultitonInv, KeyTrue
  <2>7. MultitonFound'
    <3>1. ASSUME NEW j \in mton_alive' \ mton_lost'
          PROVE  (\E k \in MtonKeys : instance_map_'[k] = j) \/ \E u \in Procs : instance'[u] = j
      <4>1. (\E k \in MtonKeys : instance_map_[k] = j) \/ \E u \in Procs : instance[u] = j
        BY <2>1, <3>1 DEF MultitonInv, MultitonFound
      <4>2. j # nil
        BY <3>1, MultitonConstants DEF MultitonInv, MultitonTypes, Multi1!TypeOK
      <4> QED BY <1>2, <1>7, <2>2, <4>1, <4>2 DEF i
    <3> QED BY <3>1 DEF MultitonFound
  <2> QED BY <2>3, <2>4, <2>5, <2>6, <2>7 DEF MultitonInv
<1>8. CASE instance_map_[key[t]] # nil
  <2>1. mton_lost' = mton_lost \cup {i} /\ instance_map_' = instance_map_ /\ unlocked' = unlocked
    BY <1>8 DEF Multi1!emplace, Multi1!Here
  <2> HIDE DEF i
  <2>3. MultitonTypes'
    BY <1>1, <1>2, <1>5, <2>1 DEF MultitonInv, MultitonTypes, Multi1!TypeOK
  <2>4. ASSUME NEW u \in Procs
        PROVE  PlaceTrue(u)'
    <3>1. PlaceTrue(u) /\ PlaceTrue(t)
      BY DEF MultitonInv
    <3>2. CASE u = t
      BY <1>1, <1>2, <1>3, <1>6, <2>1, <3>1, <3>2 DEF PlaceTrue, InHand, InLock, AtNode, WithIterator, ToEmplace
    <3>3. CASE u # t
      BY <1>2, <1>3, <2>1, <3>1, <3>3 DEF PlaceTrue
    <3> QED BY <3>2, <3>3
  <2>5. ASSUME NEW u \in Procs
        PROVE  HandTrue(u)'
    BY <1>1, <1>2, <2>1 DEF MultitonInv, HandTrue, i
  <2>6. ASSUME NEW k \in MtonKeys
        PROVE  KeyTrue(k)'
    <3>1. \A u \in Procs : mton_at[u] = "resetWrite" => mton_at'[u] = "resetWrite"
      BY <1>3
    <3> QED BY <1>1, <1>4, <2>1, <3>1 DEF MultitonInv, KeyTrue, MapTrue
  <2>7. MultitonFound'
    <3>1. ASSUME NEW j \in mton_alive' \ mton_lost'
          PROVE  (\E k \in MtonKeys : instance_map_'[k] = j) \/ \E u \in Procs : instance'[u] = j
      <4>1. (\E k \in MtonKeys : instance_map_[k] = j) \/ \E u \in Procs : instance[u] = j
        BY <2>1, <3>1 DEF MultitonInv, MultitonFound
      <4> QED BY <1>2, <2>1, <3>1, <4>1 DEF i
    <3> QED BY <3>1 DEF MultitonFound
  <2> QED BY <2>3, <2>4, <2>5, <2>6, <2>7 DEF MultitonInv
<1> QED BY <1>7, <1>8

\* A reader: what it returns is in the map, or a stray.
LEMMA MultitonRead ==
  ASSUME MultitonInv, NEW t \in Procs, NEW from, NEW to, Multi1!GetRead(t, from, to),
         <<from, to>> \in {<<"getRead", "idle">>, <<"getTake", "unlock">>}
  PROVE  MultitonInv'
<1>0. PICK i \in MtonInstances :
        /\ mton_it[t] = "node" => i = instance_map_[key[t]]
        /\ mton_given' = [mton_given EXCEPT ![key[t]] = @ \cup {i}]
        /\ strays' = IF mton_it[t] = "node" /\ i \in mton_alive THEN strays ELSE strays \cup {i}
  BY DEF Multi1!GetRead, Multi1!Give, Multi1!Here
<1>1. /\ mton_at[t] = from /\ Multi1!Goto(t, to) /\ mton_it' = [mton_it EXCEPT ![t] = "end"]
      /\ UNCHANGED <<instance_map_, mton_mutex, key, instance, mton_alive, used, mton_lost, unlocked>>
  BY DEF Multi1!GetRead, Multi1!Drop
<1>2. MultitonTypes'
  BY <1>0, <1>1 DEF MultitonInv, MultitonTypes, Multi1!TypeOK, Multi1!Goto
<1>3. ASSUME NEW u \in Procs
      PROVE  PlaceTrue(u)' /\ HandTrue(u)'
  <2>1. PlaceTrue(u) /\ HandTrue(u) /\ PlaceTrue(t)
    BY DEF MultitonInv
  <2>2. /\ mton_at'[u] = (IF u = t THEN to ELSE mton_at[u])
        /\ mton_it'[u] = (IF u = t THEN "end" ELSE mton_it[u])
    BY <1>1 DEF MultitonInv, MultitonTypes, Multi1!TypeOK, Multi1!Goto
  <2>3. PlaceTrue(u)'
    BY <1>1, <2>1, <2>2 DEF PlaceTrue, InHand, InLock, AtNode, WithIterator, ToEmplace
  <2> QED BY <1>1, <2>1, <2>3 DEF HandTrue
<1>4. ASSUME NEW k \in MtonKeys
      PROVE  KeyTrue(k)'
  <2>1. mton_given'[k] \subseteq mton_given[k] \cup (IF k = key[t] THEN {i} ELSE {})
    BY <1>0 DEF MultitonInv, MultitonTypes, Multi1!TypeOK
  <2>2. k = key[t] => i = instance_map_[k] \/ i \in strays'
    BY <1>0
  <2>3. strays \subseteq strays'
    BY <1>0
  <2>4. mton_given'[k] \subseteq {instance_map_[k]} \cup mton_lost \cup strays'
    BY <2>1, <2>2, <2>3 DEF MultitonInv, KeyTrue
  <2>5. \A u \in Procs : mton_at[u] = "resetWrite" => mton_at'[u] = "resetWrite"
    BY <1>1 DEF Multi1!Goto, MultitonInv, MultitonTypes
  <2> QED BY <1>1, <2>4, <2>5 DEF MultitonInv, KeyTrue, MapTrue
<1>5. MultitonFound'
  BY <1>1 DEF MultitonInv, MultitonFound
<1> QED BY <1>2, <1>3, <1>4, <1>5 DEF MultitonInv

\* What an erase takes out of the map is in the caller's hand.
LEMMA MultitonErase ==
  ASSUME MultitonInv, NEW t \in Procs, Multi1!DelErase(t)
  PROVE  MultitonInv'
<1> DEFINE i == instance_map_[key[t]]
<1>1. /\ mton_at[t] = "delErase" /\ mton_it[t] = "node" /\ Multi1!Goto(t, "delDelete")
      /\ instance' = [instance EXCEPT ![t] = i] /\ instance_map_' = [instance_map_ EXCEPT ![key[t]] = nil]
      /\ mton_it' = [u \in Procs |-> IF u = t THEN "end" ELSE
                       IF key[u] = key[t] /\ mton_it[u] = "node" THEN "gone" ELSE mton_it[u]]
      /\ unlocked' = unlocked \ {key[t]} /\ mton_given' = [mton_given EXCEPT ![key[t]] = {}]
      /\ UNCHANGED <<mton_mutex, key, mton_alive, used, mton_lost, strays>>
  BY DEF Multi1!DelErase, Multi1!Hold, Multi1!Here
<1>2. key[t] \in MtonKeys /\ PlaceTrue(t) /\ mton_mutex = t /\ i # nil /\ instance[t] = nil /\ KeyTrue(key[t])
  BY <1>1 DEF MultitonInv, MultitonTypes, PlaceTrue, InLock, InHand
<1>3. \A u \in Procs \ {t} : mton_at[u] \notin InLock
  BY <1>2 DEF MultitonInv, PlaceTrue
<1>4. i \in mton_alive \ mton_lost /\ i \in MtonInstances
      /\ (\A k \in MtonKeys \ {key[t]} : instance_map_[k] # i) /\ \A u \in Procs : instance[u] # i
  <2>1. \A u \in Procs : mton_at[u] # "resetWrite"
    BY <1>1, <1>3 DEF InLock
  <2>2. i \in mton_alive
    BY <1>2, <2>1 DEF KeyTrue
  <2> QED BY <1>2, <2>2 DEF MultitonInv, MultitonTypes, Multi1!TypeOK, KeyTrue, MapTrue, HandTrue
<1>5. /\ \A k \in MtonKeys : instance_map_'[k] = IF k = key[t] THEN nil ELSE instance_map_[k]
      /\ \A u \in Procs : /\ instance'[u] = (IF u = t THEN i ELSE instance[u])
                          /\ mton_at'[u] = (IF u = t THEN "delDelete" ELSE mton_at[u])
  BY <1>1 DEF MultitonInv, MultitonTypes, Multi1!TypeOK, Multi1!Goto
<1> HIDE DEF i
<1>6. MultitonTypes'
  BY <1>1, <1>2, <1>4 DEF MultitonInv, MultitonTypes, Multi1!TypeOK, Multi1!Goto
<1>7. ASSUME NEW u \in Procs
      PROVE  PlaceTrue(u)'
  <2>1. PlaceTrue(u)
    BY DEF MultitonInv
  <2>2. CASE u = t
    BY <1>1, <1>2, <1>4, <1>5, <2>1, <2>2 DEF PlaceTrue, InHand, InLock, AtNode, WithIterator, ToEmplace
  <2>3. CASE u # t
    <3>1. mton_at[u] \notin InLock /\ key[u] \in MtonKeys
      BY <1>3, <2>3 DEF MultitonInv, MultitonTypes
    <3> QED BY <1>1, <1>2, <1>5, <2>1, <2>3, <3>1 DEF PlaceTrue, InHand, InLock, AtNode, WithIterator, ToEmplace
  <2> QED BY <2>2, <2>3
<1>8. ASSUME NEW u \in Procs
      PROVE  HandTrue(u)'
  BY <1>1, <1>2, <1>4, <1>5, MultitonConstants DEF MultitonInv, MultitonTypes, Multi1!TypeOK, HandTrue
<1>9. ASSUME NEW k \in MtonKeys
      PROVE  KeyTrue(k)'
  <2>1. \A u \in Procs : mton_at[u] = "resetWrite" => mton_at'[u] = "resetWrite"
    BY <1>1, <1>5
  <2>2. mton_given'[k] = IF k = key[t] THEN {} ELSE mton_given[k]
    BY <1>1 DEF MultitonInv, MultitonTypes, Multi1!TypeOK
  <2> QED BY <1>1, <1>5, <2>1, <2>2 DEF MultitonInv, KeyTrue, MapTrue
<1>10. MultitonFound'
  <2>1. ASSUME NEW j \in mton_alive' \ mton_lost'
        PROVE  (\E k \in MtonKeys : instance_map_'[k] = j) \/ \E u \in Procs : instance'[u] = j
    <3>1. (\E k \in MtonKeys : instance_map_[k] = j) \/ \E u \in Procs : instance[u] = j
      BY <1>1, <2>1 DEF MultitonInv, MultitonFound
    <3>2. j # nil
      BY <1>1, <2>1, MultitonConstants DEF MultitonInv, MultitonTypes, Multi1!TypeOK
    <3> QED BY <1>2, <1>5, <3>1, <3>2 DEF i
  <2> QED BY <2>1 DEF MultitonFound
<1> QED BY <1>6, <1>7, <1>8, <1>9, <1>10 DEF MultitonInv

\* What is deleted next is in the caller's hand only.
LEMMA MultitonDelete ==
  ASSUME MultitonInv, NEW t \in Procs, Multi1!DelDelete(t)
  PROVE  MultitonInv'
<1>1. /\ mton_at[t] = "delDelete" /\ Multi1!Goto(t, "unlock") /\ mton_alive' = mton_alive \ {instance[t]}
      /\ instance' = [instance EXCEPT ![t] = nil]
      /\ UNCHANGED <<instance_map_, mton_mutex, key, mton_it, used, mton_given, mton_lost, strays, unlocked>>
  BY DEF Multi1!DelDelete, Multi1!Hold, Multi1!history
<1>2. /\ instance[t] # nil /\ instance[t] \notin mton_lost /\ (\A k \in MtonKeys : instance_map_[k] # instance[t])
      /\ \A u \in Procs \ {t} : instance[u] # instance[t]
  BY <1>1 DEF MultitonInv, PlaceTrue, HandTrue, InHand
<1>3. \A u \in Procs : /\ instance'[u] = (IF u = t THEN nil ELSE instance[u])
                       /\ mton_at'[u] = (IF u = t THEN "unlock" ELSE mton_at[u])
  BY <1>1 DEF MultitonInv, MultitonTypes, Multi1!TypeOK, Multi1!Goto
<1>4. MultitonTypes'
  BY <1>1, <1>2 DEF MultitonInv, MultitonTypes, Multi1!TypeOK, Multi1!Goto
<1>5. ASSUME NEW u \in Procs
      PROVE  PlaceTrue(u)' /\ HandTrue(u)'
  <2>1. PlaceTrue(u) /\ HandTrue(u)
    BY DEF MultitonInv
  <2>2. PlaceTrue(u)'
    BY <1>1, <1>3, <2>1 DEF PlaceTrue, InHand, InLock, AtNode, WithIterator, ToEmplace
  <2> QED BY <1>1, <1>2, <1>3, <2>1, <2>2 DEF HandTrue
<1>6. ASSUME NEW k \in MtonKeys
      PROVE  KeyTrue(k)'
  <2>1. \A u \in Procs : mton_at[u] = "resetWrite" => mton_at'[u] = "resetWrite"
    BY <1>1, <1>3
  <2> QED BY <1>1, <1>2, <2>1 DEF MultitonInv, KeyTrue, MapTrue
<1>7. MultitonFound'
  BY <1>1, <1>3 DEF MultitonInv, MultitonFound
<1> QED BY <1>4, <1>5, <1>6, <1>7 DEF MultitonInv

\* A reset deletes what the map goes on to name, ...
LEMMA MultitonOld ==
  ASSUME MultitonInv, NEW t \in Procs, Multi1!ResetDelete(t)
  PROVE  MultitonInv'
<1> DEFINE i == instance_map_[key[t]]
<1>1. /\ mton_at[t] = "resetDelete" /\ mton_it[t] = "node" /\ Multi1!Goto(t, "resetWrite")
      /\ mton_alive' = mton_alive \ {i}
      /\ UNCHANGED <<instance_map_, mton_mutex, key, mton_it, instance, used, mton_given, mton_lost, strays, unlocked>>
  BY DEF Multi1!ResetDelete, Multi1!Here, Multi1!history
<1>2. /\ key[t] \in MtonKeys /\ i # nil /\ i \notin mton_lost
      /\ (\A k \in MtonKeys \ {key[t]} : instance_map_[k] # i) /\ \A u \in Procs : instance[u] # i
  BY <1>1 DEF MultitonInv, MultitonTypes, PlaceTrue, KeyTrue, MapTrue, HandTrue
<1>3. \A u \in Procs : mton_at'[u] = IF u = t THEN "resetWrite" ELSE mton_at[u]
  BY <1>1 DEF MultitonInv, MultitonTypes, Multi1!Goto
<1>4. MultitonTypes'
  BY <1>1, <1>2 DEF MultitonInv, MultitonTypes, Multi1!TypeOK, Multi1!Goto
<1>5. ASSUME NEW u \in Procs
      PROVE  PlaceTrue(u)' /\ HandTrue(u)'
  <2>1. PlaceTrue(u) /\ HandTrue(u)
    BY DEF MultitonInv
  <2>2. PlaceTrue(u)'
    BY <1>1, <1>3, <2>1 DEF PlaceTrue, InHand, InLock, AtNode, WithIterator, ToEmplace
  <2> QED BY <1>1, <1>2, <2>1, <2>2 DEF HandTrue
<1>6. ASSUME NEW k \in MtonKeys
      PROVE  KeyTrue(k)'
  <2>1. \A u \in Procs : mton_at[u] = "resetWrite" => mton_at'[u] = "resetWrite"
    BY <1>3
  <2>2. k = key[t] => \E u \in Procs : mton_at'[u] = "resetWrite" /\ key'[u] = k
    BY <1>1, <1>3
  <2> QED BY <1>1, <1>2, <2>1, <2>2 DEF MultitonInv, KeyTrue, MapTrue
<1>7. MultitonFound'
  BY <1>1 DEF MultitonInv, MultitonFound
<1> QED BY <1>4, <1>5, <1>6, <1>7 DEF MultitonInv

\* ... and writes its own over it.
LEMMA MultitonWrite ==
  ASSUME MultitonInv, NEW t \in Procs, Multi1!ResetWrite(t)
  PROVE  MultitonInv'
<1> DEFINE i == instance[t]
<1>1. /\ mton_at[t] = "resetWrite" /\ Multi1!Goto(t, "unlock")
      /\ mton_it' = [mton_it EXCEPT ![t] = "end"] /\ instance' = [instance EXCEPT ![t] = nil]
      /\ instance_map_' = [instance_map_ EXCEPT ![key[t]] = i] /\ mton_given' = [mton_given EXCEPT ![key[t]] = {}]
      /\ UNCHANGED <<mton_mutex, key, mton_alive, used, mton_lost, strays, unlocked>>
  BY DEF Multi1!ResetWrite, Multi1!Drop, Multi1!Hold
<1>2. /\ key[t] \in MtonKeys /\ i # nil /\ i \in mton_alive \ mton_lost /\ i \in used /\ i \in MtonInstances
      /\ (\A k \in MtonKeys : instance_map_[k] # i) /\ \A u \in Procs \ {t} : instance[u] # i
      /\ instance_map_[key[t]] \notin mton_alive
  BY <1>1 DEF MultitonInv, MultitonTypes, Multi1!TypeOK, PlaceTrue, HandTrue, InHand
<1>3. \A u \in Procs \ {t} : mton_at[u] \notin InLock
  BY <1>1 DEF MultitonInv, PlaceTrue, InLock
<1>4. /\ \A k \in MtonKeys : /\ instance_map_'[k] = (IF k = key[t] THEN i ELSE instance_map_[k])
                             /\ mton_given'[k] = (IF k = key[t] THEN {} ELSE mton_given[k])
      /\ \A u \in Procs : /\ instance'[u] = (IF u = t THEN nil ELSE instance[u])
                          /\ mton_at'[u] = (IF u = t THEN "unlock" ELSE mton_at[u])
                          /\ mton_it'[u] = (IF u = t THEN "end" ELSE mton_it[u])
  BY <1>1 DEF MultitonInv, MultitonTypes, Multi1!TypeOK, Multi1!Goto
<1>5. MultitonTypes'
  BY <1>1, <1>2 DEF MultitonInv, MultitonTypes, Multi1!TypeOK, Multi1!Goto
<1> HIDE DEF i
<1>6. ASSUME NEW u \in Procs
      PROVE  PlaceTrue(u)' /\ HandTrue(u)'
  <2>1. PlaceTrue(u) /\ HandTrue(u) /\ key[u] \in MtonKeys
    BY DEF MultitonInv, MultitonTypes
  <2>2. PlaceTrue(u)'
    <3>1. CASE u = t
      BY <1>1, <1>4, <2>1, <3>1 DEF PlaceTrue, InHand, InLock, AtNode, WithIterator, ToEmplace
    <3>2. CASE u # t
      <4>1. mton_at[u] \notin InLock
        BY <1>3, <3>2
      <4> QED BY <1>1, <1>2, <1>4, <2>1, <3>2, <4>1 DEF PlaceTrue, InHand, InLock, AtNode, WithIterator, ToEmplace
    <3> QED BY <3>1, <3>2
  <2> QED BY <1>1, <1>2, <1>4, <2>1, <2>2 DEF HandTrue
<1>7. ASSUME NEW k \in MtonKeys
      PROVE  KeyTrue(k)'
  <2>1. MapTrue(k)'
    BY <1>1, <1>2, <1>4 DEF MultitonInv, KeyTrue, MapTrue
  <2>2. k # key[t] => \A u \in Procs : mton_at[u] = "resetWrite" /\ key[u] = k => mton_at'[u] = "resetWrite"
    BY <1>4
  <2> QED BY <1>1, <1>2, <1>4, <2>1, <2>2 DEF MultitonInv, KeyTrue
<1>8. MultitonFound'
  <2>1. ASSUME NEW j \in mton_alive' \ mton_lost'
        PROVE  (\E k \in MtonKeys : instance_map_'[k] = j) \/ \E u \in Procs : instance'[u] = j
    <3>1. (\E k \in MtonKeys : instance_map_[k] = j) \/ \E u \in Procs : instance[u] = j
      BY <1>1, <2>1 DEF MultitonInv, MultitonFound
    <3>2. j \in mton_alive
      BY <1>1, <2>1
    <3>3. CASE \E k \in MtonKeys : instance_map_[k] = j
      BY <1>2, <1>4, <3>2, <3>3
    <3>4. CASE \E u \in Procs : instance[u] = j
      BY <1>2, <1>4, <3>4 DEF i
    <3> QED BY <3>1, <3>3, <3>4
  <2> QED BY <2>1 DEF MultitonFound
<1> QED BY <1>5, <1>6, <1>7, <1>8 DEF MultitonInv

LEMMA MultitonStep ==
  ASSUME MultitonInv, Multi1!Next
  PROVE  MultitonInv'
<1>1. PICK t \in Procs :
        \/ \E k \in MtonKeys : Multi1!Call(t, k, "get") \/ Multi1!Call(t, k, "del") \/ Multi1!Call(t, k, "reset")
        \/ Multi1!GetStep(t) \/ Multi1!DelStep(t) \/ Multi1!ResetStep(t) \/ Multi1!unlock(t)
  BY DEF Multi1!Next
<1>2. CASE \E k \in MtonKeys : Multi1!Call(t, k, "get") \/ Multi1!Call(t, k, "del") \/ Multi1!Call(t, k, "reset")
  BY <1>2, MultitonQuiet
<1>3. CASE Multi1!unlock(t)
  BY <1>3, MultitonQuiet
<1>4. CASE Multi1!GetStep(t)
  <2>1. CASE Multi1!find(t, "get", "getRead", "getLock")
    <3> DEFINE f == <<"get", "getRead", "getLock">>
    <3>1. Multi1!find(t, f[1], f[2], f[3])
      BY <2>1
    <3> QED BY <3>1, MultitonQuiet
  <2>2. CASE Multi1!lock(t, "getLock", "getLocked")
    <3> DEFINE l == <<"getLock", "getLocked">>
    <3>1. Multi1!lock(t, l[1], l[2])
      BY <2>2
    <3> QED BY <3>1, MultitonQuiet
  <2>3. CASE Multi1!find(t, "getLocked", "getTake", "getNew")
    <3> DEFINE f == <<"getLocked", "getTake", "getNew">>
    <3>1. Multi1!find(t, f[1], f[2], f[3])
      BY <2>3
    <3> QED BY <3>1, MultitonQuiet
  <2>4. CASE Multi1!GetRead(t, "getRead", "idle") \/ Multi1!GetRead(t, "getTake", "unlock")
    BY <2>4, MultitonRead
  <2>5. CASE Multi1!GetNew(t)
    BY <2>5, MultitonNew DEF Multi1!GetNew, Multi1!history
  <2>6. CASE Multi1!GetEmplace(t)
    BY <2>6, MultitonEmplace DEF Multi1!GetEmplace
  <2> QED BY <1>4, <2>1, <2>2, <2>3, <2>4, <2>5, <2>6 DEF Multi1!GetStep
<1>5. CASE Multi1!DelStep(t)
  <2>1. CASE Multi1!find(t, "del", "delLock", "idle")
    <3> DEFINE f == <<"del", "delLock", "idle">>
    <3>1. Multi1!find(t, f[1], f[2], f[3])
      BY <2>1
    <3> QED BY <3>1, MultitonQuiet
  <2>2. CASE Multi1!lock(t, "delLock", "delLocked")
    <3> DEFINE l == <<"delLock", "delLocked">>
    <3>1. Multi1!lock(t, l[1], l[2])
      BY <2>2
    <3> QED BY <3>1, MultitonQuiet
  <2>3. CASE Multi1!find(t, "delLocked", "delErase", "unlock")
    <3> DEFINE f == <<"delLocked", "delErase", "unlock">>
    <3>1. Multi1!find(t, f[1], f[2], f[3])
      BY <2>3
    <3> QED BY <3>1, MultitonQuiet
  <2> QED BY <1>5, <2>1, <2>2, <2>3, MultitonErase, MultitonDelete DEF Multi1!DelStep
<1>6. CASE Multi1!ResetStep(t)
  <2>1. CASE Multi1!find(t, "resetFind", "resetLock", "resetAdd")
    <3> DEFINE f == <<"resetFind", "resetLock", "resetAdd">>
    <3>1. Multi1!find(t, f[1], f[2], f[3])
      BY <2>1
    <3> QED BY <3>1, MultitonQuiet
  <2>2. CASE Multi1!lock(t, "resetLock", "resetLocked")
    <3> DEFINE l == <<"resetLock", "resetLocked">>
    <3>1. Multi1!lock(t, l[1], l[2])
      BY <2>2
    <3> QED BY <3>1, MultitonQuiet
  <2>3. CASE Multi1!find(t, "resetLocked", "resetDelete", "resetEmplace")
    <3> DEFINE f == <<"resetLocked", "resetDelete", "resetEmplace">>
    <3>1. Multi1!find(t, f[1], f[2], f[3])
      BY <2>3
    <3> QED BY <3>1, MultitonQuiet
  <2>4. CASE Multi1!ResetNew(t)
    BY <2>4, MultitonNew DEF Multi1!ResetNew, Multi1!history
  <2>5. CASE Multi1!ResetAdd(t, "resetAdd", "idle") \/ Multi1!ResetAdd(t, "resetEmplace", "unlock")
    BY <2>5, MultitonEmplace DEF Multi1!ResetAdd
  <2> QED BY <1>6, <2>1, <2>2, <2>3, <2>4, <2>5, MultitonOld, MultitonWrite DEF Multi1!ResetStep
<1> QED BY <1>1, <1>2, <1>3, <1>4, <1>5, <1>6

LEMMA MultitonIdle == MultitonInv /\ UNCHANGED multiton_vars => MultitonInv'
BY DEF MultitonInv, MultitonTypes, PlaceTrue, HandTrue, KeyTrue, MapTrue, MultitonFound, Multi1!TypeOK, multiton_vars

(***************************************************************************)
(* The state machine.  As long as nothing is torn, one trigger at most is  *)
(* under way, and its phase says what the host entered and left.           *)
(***************************************************************************)
Phases == {"check", "update", "exit", "enter", "complete"}
TriggerFrame == [from : FsmStates, to : FsmStates, at : Phases]

\* What the host was told of machine s, in which one trigger runs.
FrameTells(f, s, host) ==
  /\ s = f.from
  /\ f.at \in {"check", "update", "exit"} => host = {s}
  /\ f.at = "update" => f.to = f.from
  /\ f.at = "enter" => host = {}
  /\ f.at = "complete" => host = {f.to}

MachineTypes ==
  /\ state_ \in FsmStates /\ efsm_stack \in Seq(TriggerFrame)
  /\ \A k \in DOMAIN trans_map_ : trans_map_[k] \in FsmStates

MachineInv ==
  /\ MachineTypes
  /\ \A i \in DOMAIN efsm_stack : {efsm_stack[i].from, efsm_stack[i].to} \subseteq state_map_
  /\ ~torn => \/ efsm_stack = <<>> /\ efsm_inside = {state_}
              \/ Len(efsm_stack) = 1 /\ FrameTells(efsm_stack[1], state_, efsm_inside)

LEMMA MachineStart == Fsm!Init => MachineInv
BY DEF Fsm!Init, MachineInv, MachineTypes

LEMMA MachineMeans == MachineInv => Fsm!StateIsEntered
BY DEF MachineInv, MachineTypes, FrameTells, Fsm!StateIsEntered

LEMMA LastChanged ==
  ASSUME NEW S, NEW s \in Seq(S), s # <<>>, NEW f \in S
  PROVE  /\ [s EXCEPT ![Len(s)] = f] \in Seq(S)
         /\ Len([s EXCEPT ![Len(s)] = f]) = Len(s)
         /\ \A i \in 1..Len(s) : [s EXCEPT ![Len(s)] = f][i] = IF i = Len(s) THEN f ELSE s[i]
OBVIOUS

LEMMA TriggerTop ==
  MachineInv /\ efsm_stack # <<>> =>
    /\ Len(efsm_stack) \in Nat \ {0} /\ Fsm!Top = efsm_stack[Len(efsm_stack)] /\ Fsm!Top \in TriggerFrame
    /\ {Fsm!Top.from, Fsm!Top.to} \subseteq state_map_
    /\ ~torn => Len(efsm_stack) = 1 /\ Fsm!Top = efsm_stack[1] /\ FrameTells(Fsm!Top, state_, efsm_inside)
BY DEF MachineInv, MachineTypes, Fsm!Top

\* The last trigger goes on to another phase.
LEMMA MachineGoes ==
  ASSUME MachineInv, efsm_stack # <<>>, NEW phase \in Phases, Fsm!Goto(phase), UNCHANGED <<state_, Fsm!tables>>,
         torn' = torn,
         ~torn => FrameTells([Fsm!Top EXCEPT !.at = phase], state_, efsm_inside')
  PROVE  MachineInv'
<1> DEFINE f == [Fsm!Top EXCEPT !.at = phase]
<1>2. f \in TriggerFrame /\ f.from = Fsm!Top.from /\ f.to = Fsm!Top.to /\ efsm_stack' = [efsm_stack EXCEPT ![Len(efsm_stack)] = f]
  BY TriggerTop DEF Fsm!Goto, TriggerFrame
<1>3. /\ efsm_stack' \in Seq(TriggerFrame) /\ Len(efsm_stack') = Len(efsm_stack)
      /\ \A i \in 1..Len(efsm_stack) : efsm_stack'[i] = IF i = Len(efsm_stack) THEN f ELSE efsm_stack[i]
  BY <1>2, LastChanged DEF MachineInv, MachineTypes
<1>4. ~torn => FrameTells(f, state_, efsm_inside')
  OBVIOUS
<1> HIDE DEF f
<1>5. MachineTypes'
  BY <1>3 DEF MachineInv, MachineTypes, Fsm!tables
<1>6. \A i \in DOMAIN efsm_stack' : {efsm_stack'[i].from, efsm_stack'[i].to} \subseteq state_map_'
  BY TriggerTop, <1>2, <1>3 DEF MachineInv, MachineTypes, Fsm!tables
<1>7. ASSUME ~torn
      PROVE  Len(efsm_stack') = 1 /\ FrameTells(efsm_stack'[1], state_', efsm_inside')
  BY <1>3, <1>4, <1>7, TriggerTop
<1> QED BY <1>5, <1>6, <1>7 DEF MachineInv

\* The last trigger returns.
LEMMA MachineReturns ==
  ASSUME MachineInv, efsm_stack # <<>>, Fsm!Pop, UNCHANGED <<Fsm!tables, efsm_inside>>, state_' \in FsmStates,
         ~torn' => ~torn /\ efsm_inside = {state_'}
  PROVE  MachineInv'
<1>1. /\ efsm_stack' \in Seq(TriggerFrame) /\ Len(efsm_stack') = Len(efsm_stack) - 1
      /\ \A i \in 1..Len(efsm_stack) - 1 : efsm_stack'[i] = efsm_stack[i]
  BY FrontOf DEF MachineInv, MachineTypes, Fsm!Pop
<1>2. MachineTypes'
  BY <1>1 DEF MachineInv, MachineTypes, Fsm!tables
<1>3. \A i \in DOMAIN efsm_stack' : {efsm_stack'[i].from, efsm_stack'[i].to} \subseteq state_map_'
  BY TriggerTop, <1>1 DEF MachineInv, MachineTypes, Fsm!tables
<1>4. ASSUME ~torn'
      PROVE  efsm_stack' = <<>> /\ efsm_inside' = {state_'}
  <2>1. Len(efsm_stack') = 0 /\ efsm_stack' \in Seq(TriggerFrame)
    <3>1. ~torn /\ Len(efsm_stack) \in Nat
      BY <1>4, TriggerTop
    <3>2. Len(efsm_stack) = 1
      BY <3>1, TriggerTop
    <3> QED BY <1>1, <3>2
  <2> QED BY <1>4, <2>1, EmptySeq
<1> QED BY <1>2, <1>3, <1>4 DEF MachineInv

LEMMA MachineStep ==
  ASSUME MachineInv, Fsm!Next
  PROVE  MachineInv'
<1>1. ASSUME Fsm!Building, \A k \in DOMAIN trans_map_' : trans_map_'[k] \in FsmStates
      PROVE  MachineInv'
  BY <1>1 DEF Fsm!Building, MachineInv, MachineTypes
<1>2. CASE Fsm!clear
  BY <1>1, <1>2 DEF Fsm!clear
<1>3. ASSUME NEW s \in FsmStates, Fsm!AddState(s)
      PROVE  MachineInv'
  BY <1>1, <1>3 DEF Fsm!AddState, MachineInv, MachineTypes
<1>4. ASSUME NEW e \in FsmEvents, Fsm!AddEvent(e)
      PROVE  MachineInv'
  BY <1>1, <1>4 DEF Fsm!AddEvent, MachineInv, MachineTypes
<1>5. ASSUME NEW e \in FsmEvents, NEW s \in FsmStates, NEW to \in FsmStates, Fsm!AddTransition(e, s, to)
      PROVE  MachineInv'
  BY <1>1, <1>5 DEF Fsm!AddTransition, MachineInv, MachineTypes
<1>6. ASSUME NEW e \in FsmEvents, NEW s \in FsmStates, Fsm!DelTransition(e, s)
      PROVE  MachineInv'
  BY <1>1, <1>6 DEF Fsm!DelTransition, MachineInv, MachineTypes
<1>7. ASSUME NEW s \in FsmStates, Fsm!changeStateForce(s)
      PROVE  MachineInv'
  BY <1>7 DEF Fsm!changeStateForce, MachineInv, MachineTypes, Fsm!tables
<1>8. ASSUME NEW e \in FsmEvents, Fsm!Trigger(e)
      PROVE  MachineInv'
  <2> DEFINE f == [from |-> state_, to |-> trans_map_[<<e, state_>>], at |-> "check"]
  <2>1. f \in TriggerFrame /\ {f.from, f.to} \subseteq state_map_ /\ f.from = state_ /\ f.at = "check"
    BY <1>8 DEF Fsm!Trigger, Fsm!Found, MachineInv, MachineTypes, TriggerFrame, Phases
  <2>2. efsm_stack' = Append(efsm_stack, f) /\ torn' = (torn \/ efsm_stack # <<>>) /\ UNCHANGED <<state_, Fsm!tables, efsm_inside>>
    BY <1>8 DEF Fsm!Trigger
  <2> HIDE DEF f
  <2>3. /\ efsm_stack' \in Seq(TriggerFrame) /\ Len(efsm_stack') = Len(efsm_stack) + 1 /\ efsm_stack'[Len(efsm_stack) + 1] = f
        /\ \A i \in 1..Len(efsm_stack) : efsm_stack'[i] = efsm_stack[i]
    BY <2>1, <2>2 DEF MachineInv, MachineTypes
  <2>4. MachineTypes'
    BY <2>2, <2>3 DEF MachineInv, MachineTypes, Fsm!tables
  <2>5. \A i \in DOMAIN efsm_stack' : {efsm_stack'[i].from, efsm_stack'[i].to} \subseteq state_map_'
    BY <2>1, <2>2, <2>3 DEF MachineInv, MachineTypes, Fsm!tables
  <2>6. ASSUME ~torn'
        PROVE  Len(efsm_stack') = 1 /\ FrameTells(efsm_stack'[1], state_', efsm_inside')
    <3>1. ~torn /\ efsm_stack = <<>>
      BY <2>2, <2>6, Zenon
    <3>2. efsm_inside = {state_} /\ Len(efsm_stack) = 0
      BY <3>1 DEF MachineInv
    <3> QED BY <2>1, <2>2, <2>3, <3>1, <3>2 DEF FrameTells
  <2> QED BY <2>4, <2>5, <2>6 DEF MachineInv
<1> SUFFICES ASSUME efsm_stack # <<>>, ~torn => FrameTells(Fsm!Top, state_, efsm_inside),
                    Fsm!Top \in TriggerFrame, state_ \in FsmStates
             PROVE  MachineInv'
  BY <1>2, <1>3, <1>4, <1>5, <1>6, <1>7, <1>8, TriggerTop
     DEF Fsm!Next, Fsm!At, Fsm!CheckDone, Fsm!CheckFails, Fsm!UpdateDone, Fsm!UpdateFails,
         Fsm!UpdateThrows, Fsm!ExitDone, Fsm!ExitFails, Fsm!EnterDone,
         Fsm!EnterFails, Fsm!Complete, Fsm!CompleteFails, MachineInv, MachineTypes
<1>9. CASE Fsm!CheckDone
  BY <1>9, MachineGoes DEF Fsm!CheckDone, Fsm!At, FrameTells, TriggerFrame, Phases
<1>10. CASE Fsm!UpdateDone
  BY <1>10, MachineGoes DEF Fsm!UpdateDone, Fsm!At, FrameTells, TriggerFrame, Phases
<1>11. CASE Fsm!ExitDone
  BY <1>11, MachineGoes DEF Fsm!ExitDone, Fsm!At, FrameTells, TriggerFrame, Phases
<1>12. CASE Fsm!EnterDone
  BY <1>12, MachineGoes DEF Fsm!EnterDone, Fsm!At, FrameTells, TriggerFrame, Phases
<1>13. CASE Fsm!CheckFails
  BY <1>13, MachineReturns DEF Fsm!CheckFails, Fsm!At, FrameTells
<1>14. CASE Fsm!UpdateFails
  BY <1>14, MachineReturns DEF Fsm!UpdateFails, Fsm!At, FrameTells
<1>15. CASE Fsm!ExitFails
  BY <1>15, MachineReturns DEF Fsm!ExitFails, Fsm!At, FrameTells
<1>16. CASE Fsm!EnterFails
  BY <1>16, MachineReturns DEF Fsm!EnterFails, Fsm!At
<1>17. CASE Fsm!Complete
  BY <1>17, MachineReturns DEF Fsm!Complete, Fsm!At, FrameTells, TriggerFrame
<1>18. CASE Fsm!CompleteFails
  BY <1>18, MachineReturns DEF Fsm!CompleteFails, Fsm!At, FrameTells
<1>19. CASE Fsm!UpdateThrows
  BY <1>19 DEF Fsm!UpdateThrows, Fsm!At, FrameTells, MachineInv, MachineTypes, Fsm!tables
<1> QED BY <1>2, <1>3, <1>4, <1>5, <1>6, <1>7, <1>8, <1>9, <1>10, <1>11, <1>12, <1>13, <1>14, <1>15, <1>16,
           <1>17, <1>18, <1>19 DEF Fsm!Next

LEMMA MachineIdle == MachineInv /\ UNCHANGED efsm_vars => MachineInv'
BY DEF MachineInv, MachineTypes, FrameTells, efsm_vars, Fsm!tables

(***************************************************************************)
(* Signal actions.  Between sigaction and the two maps a frame has in hand *)
(* what it replaced; the kernel still has what that frame told it, unless  *)
(* a handler told it something else about the same signal.                 *)
(***************************************************************************)
SigEntry == [sig : SigNums, new : Sig!Actions]

\* Whether the kernel's table says what frame f told it and knows what it replaced.
CallTells(f, s) == action[s] = Head(todo[f]).new /\ sigs_before[s] = old_action[f]

SignalTypes ==
  /\ action \in [SigNums -> Sig!Actions] /\ sigs_before \in [SigNums -> Sig!Actions]
  /\ DOMAIN register_map_ = DOMAIN last_register_map_
  /\ DOMAIN register_map_ \subseteq SigNums /\ IsFiniteSet(DOMAIN register_map_)
  /\ \A s \in DOMAIN last_register_map_ : last_register_map_[s] \in Sig!Actions
  /\ todo \in [Sig!Frames -> Seq(SigEntry)] /\ old_action \in [Sig!Frames -> Sig!Actions \cup {nil}]

SignalFrames ==
  /\ \A f \in Sig!Frames : old_action[f] # nil => todo[f] # <<>>
  /\ ~sigs_inside => todo["handler"] = <<>>

SignalsTell ==
  \A s \in SigNums :
    /\ Sig!InFlight("handler", s) => CallTells("handler", s)
    /\ Sig!InFlight("main", s) => s \in crossed \/ CallTells("main", s)

SignalInv == SignalTypes /\ SignalFrames /\ SignalsTell /\ Sig!MapsTell

LEMMA SignalStart == Sig!Init => SignalInv
<1> SUFFICES ASSUME Sig!Init PROVE SignalInv
  OBVIOUS
<1>1. DOMAIN register_map_ = {} /\ DOMAIN last_register_map_ = {}
  BY DEF Sig!Init
<1>2. SignalTypes
  BY <1>1, FS_EmptySet DEF Sig!Init, SignalTypes, Sig!Actions
<1>3. SignalFrames /\ SignalsTell /\ Sig!MapsTell
  BY <1>1 DEF Sig!Init, SignalFrames, SignalsTell, Sig!MapsTell, Sig!InFlight, Sig!Frames
<1> QED BY <1>2, <1>3 DEF SignalInv

LEMMA SigCardinality == \A S : Sig!Cardinality(S) = Cardinality(S)
BY DEF Cardinality, Sig!Cardinality

\* A walk of a finite map.
LEMMA EntriesTyped ==
  ASSUME NEW m, IsFiniteSet(DOMAIN m), DOMAIN m \subseteq SigNums, \A s \in DOMAIN m : m[s] \in Sig!Actions,
         NEW list \in Sig!Entries(m)
  PROVE  list \in Seq(SigEntry)
<1>1. PICK n \in Nat : n = Cardinality(DOMAIN m)
  BY FS_CardinalityType
<1>2. PICK o \in [1..n -> DOMAIN m] : list = [i \in DOMAIN o |-> [sig |-> o[i], new |-> m[o[i]]]]
  BY <1>1, SigCardinality DEF Sig!Entries, Sig!Ordered
<1>3. list = [i \in 1..n |-> [sig |-> o[i], new |-> m[o[i]]]] /\ \A i \in 1..n : o[i] \in DOMAIN m
  BY <1>2
<1>4. \A i \in 1..n : [sig |-> o[i], new |-> m[o[i]]] \in SigEntry
  BY <1>3 DEF SigEntry
<1> QED BY <1>3, <1>4

\* A call begins: nothing is under way in its frame.
LEMMA SignalBegins ==
  ASSUME SignalInv, NEW f \in Sig!Frames, NEW list \in Seq(SigEntry), Sig!Begin(f, list)
  PROVE  SignalInv'
<1>1. /\ todo[f] = <<>> /\ f = Sig!Running /\ old_action[f] = nil /\ todo' = [todo EXCEPT ![f] = list]
      /\ UNCHANGED <<action, register_map_, last_register_map_, old_action, sigs_inside, sigs_before, crossed>>
  BY DEF Sig!Begin, Sig!Idle, SignalInv, SignalFrames
<1>2. \A g \in Sig!Frames : todo'[g] = IF g = f THEN list ELSE todo[g]
  BY <1>1 DEF SignalInv, SignalTypes
<1>3. SignalTypes'
  BY <1>1 DEF SignalInv, SignalTypes
<1>4. SignalFrames'
  BY <1>1, <1>2 DEF SignalInv, SignalFrames, Sig!Running, Sig!Frames
<1>5. \A g \in Sig!Frames, s \in SigNums : Sig!InFlight(g, s)' = Sig!InFlight(g, s)
  BY <1>1, <1>2 DEF Sig!InFlight
<1>6. \A g \in Sig!Frames, s \in SigNums : Sig!InFlight(g, s) => CallTells(g, s)' = CallTells(g, s)
  BY <1>1, <1>2 DEF Sig!InFlight, CallTells
<1>7. SignalsTell'
  BY <1>1, <1>5, <1>6 DEF SignalInv, SignalsTell, Sig!Frames
<1>8. Sig!MapsTell'
  BY <1>1, <1>5 DEF SignalInv, SignalTypes, Sig!MapsTell
<1> QED BY <1>3, <1>4, <1>7, <1>8 DEF SignalInv

LEMMA HeadTyped ==
  ASSUME NEW S, NEW s \in Seq(S), s # <<>>
  PROVE  Head(s) \in S /\ Tail(s) \in Seq(S)
BY HeadTailProperties

LEMMA SignalAsked ==
  ASSUME SignalInv, NEW f \in Sig!Frames, Sig!Sigaction(f)
  PROVE  SignalInv'
<1>0. PICK e : e = Head(todo[f])
  OBVIOUS
<1>1. e \in SigEntry /\ f = Sig!Running /\ old_action[f] = nil /\ todo[f] # <<>>
  BY <1>0, HeadTyped DEF Sig!Sigaction, SignalInv, SignalTypes
<1>2. /\ action' = [action EXCEPT ![e.sig] = e.new]
      /\ old_action' = [old_action EXCEPT ![f] = action[e.sig]]
      /\ sigs_before' = [sigs_before EXCEPT ![e.sig] = action[e.sig]]
      /\ UNCHANGED <<register_map_, last_register_map_, todo, sigs_inside>>
  BY <1>0 DEF Sig!Sigaction
<1>3. /\ f = "handler" /\ Sig!InFlight("main", e.sig) => crossed' = crossed \cup {e.sig}
      /\ ~(f = "handler" /\ Sig!InFlight("main", e.sig)) => crossed' = crossed \ {e.sig}
  BY <1>0 DEF Sig!Sigaction
<1>4. e.sig \in SigNums /\ e.new \in Sig!Actions /\ action[e.sig] \in Sig!Actions
  BY <1>1 DEF SigEntry, SignalInv, SignalTypes
<1>5. /\ \A s \in SigNums : Sig!InFlight(f, s)' <=> s = e.sig
      /\ \A g \in Sig!Frames \ {f}, s \in SigNums : Sig!InFlight(g, s)' <=> Sig!InFlight(g, s)
  BY <1>0, <1>1, <1>2, <1>4, SignalConstants DEF Sig!InFlight, SignalInv, SignalTypes
<1>6. /\ CallTells(f, e.sig)'
      /\ \A g \in Sig!Frames, s \in SigNums \ {e.sig} : Sig!InFlight(g, s) => (CallTells(g, s)' <=> CallTells(g, s))
  BY <1>0, <1>1, <1>2, <1>4 DEF Sig!InFlight, CallTells, SignalInv, SignalTypes
<1>7. f = "main" => ~sigs_inside /\ \A s \in SigNums : ~Sig!InFlight("handler", s)
  BY <1>1 DEF Sig!Running, SignalInv, SignalFrames, Sig!InFlight, Sig!Frames
<1>8. SignalTypes'
  BY <1>2, <1>4 DEF SignalInv, SignalTypes
<1>9. SignalFrames'
  BY <1>1, <1>2 DEF SignalInv, SignalTypes, SignalFrames
<1>10. SignalsTell'
  <2>1. CASE f = "main"
    BY <1>3, <1>5, <1>6, <1>7, <2>1 DEF SignalInv, SignalsTell, Sig!Frames, Sig!InFlight, CallTells
  <2>2. CASE f = "handler"
    <3>1. ASSUME NEW s \in SigNums, Sig!InFlight("main", s)'
          PROVE  s \in crossed' \/ CallTells("main", s)'
      <4>1. Sig!InFlight("main", s)
        BY <1>5, <2>2, <3>1 DEF Sig!Frames
      <4>2. CASE s = e.sig
        BY <1>3, <2>2, <4>1, <4>2
      <4>3. CASE s # e.sig
        BY <1>3, <1>6, <4>1, <4>3 DEF SignalInv, SignalsTell, Sig!Frames
      <4> QED BY <4>2, <4>3
    <3>2. ASSUME NEW s \in SigNums, Sig!InFlight("handler", s)'
          PROVE  CallTells("handler", s)'
      BY <1>5, <1>6, <2>2, <3>2 DEF Sig!InFlight, CallTells
    <3> QED BY <3>1, <3>2 DEF SignalsTell
  <2> QED BY <2>1, <2>2 DEF Sig!Frames
<1>11. Sig!MapsTell'
  <2> SUFFICES ASSUME NEW s \in DOMAIN register_map_
               PROVE  \/ s \in crossed' \/ \E g \in Sig!Frames : Sig!InFlight(g, s)'
                      \/ register_map_[s] = action'[s] /\ last_register_map_[s] = sigs_before'[s]
    BY <1>2 DEF Sig!MapsTell
  <2>1. s \in SigNums
    BY DEF SignalInv, SignalTypes
  <2>2. CASE s = e.sig
    BY <1>5, <2>1, <2>2
  <2>3. CASE s # e.sig
    <3>1. action'[s] = action[s] /\ sigs_before'[s] = sigs_before[s] /\ (s \in crossed => s \in crossed')
      BY <1>2, <1>3, <2>1, <2>3 DEF SignalInv, SignalTypes
    <3>2. \A g \in Sig!Frames : Sig!InFlight(g, s) => Sig!InFlight(g, s)'
      BY <1>1, <1>5, <2>1 DEF Sig!InFlight
    <3> QED BY <3>1, <3>2 DEF SignalInv, Sig!MapsTell
  <2> QED BY <2>2, <2>3
<1> QED BY <1>8, <1>9, <1>10, <1>11 DEF SignalInv

LEMMA SignalRecorded ==
  ASSUME SignalInv, NEW f \in Sig!Frames, Sig!Record(f)
  PROVE  SignalInv'
<1>0. PICK e : e = Head(todo[f])
  OBVIOUS
<1>1. e \in SigEntry /\ f = Sig!Running /\ old_action[f] # nil /\ todo[f] # <<>> /\ Tail(todo[f]) \in Seq(SigEntry)
  BY <1>0, HeadTyped DEF Sig!Record, SignalInv, SignalTypes, SignalFrames
<1>2. /\ register_map_' = Sig!Assign(register_map_, e.sig, e.new)
      /\ last_register_map_' = Sig!Assign(last_register_map_, e.sig, old_action[f])
      /\ todo' = [todo EXCEPT ![f] = Tail(@)] /\ old_action' = [old_action EXCEPT ![f] = nil]
      /\ UNCHANGED <<action, sigs_inside, sigs_before, crossed>>
  BY <1>0 DEF Sig!Record, Sig!Keep
<1>3. e.sig \in SigNums /\ e.new \in Sig!Actions /\ old_action[f] \in Sig!Actions /\ Sig!InFlight(f, e.sig)
  BY <1>0, <1>1 DEF SigEntry, SignalInv, SignalTypes, Sig!InFlight
<1>4. /\ \A s \in SigNums : ~Sig!InFlight(f, s)'
      /\ \A s \in SigNums : Sig!InFlight(f, s) => s = e.sig
      /\ \A g \in Sig!Frames \ {f}, s \in SigNums : Sig!InFlight(g, s)' <=> Sig!InFlight(g, s)
      /\ \A g \in Sig!Frames \ {f}, s \in SigNums : CallTells(g, s)' <=> CallTells(g, s)
  BY <1>0, <1>1, <1>2 DEF Sig!InFlight, CallTells, SignalInv, SignalTypes
<1>5. e.sig \in crossed \/ (action[e.sig] = e.new /\ sigs_before[e.sig] = old_action[f])
  BY <1>0, <1>3 DEF SignalInv, SignalsTell, Sig!Frames, CallTells, Sig!InFlight
<1>6. f = "main" => ~sigs_inside
  BY <1>1 DEF Sig!Running
<1>7. SignalTypes'
  <2>1. /\ DOMAIN register_map_' = DOMAIN register_map_ \cup {e.sig}
        /\ DOMAIN last_register_map_' = DOMAIN register_map_ \cup {e.sig}
        /\ \A s \in DOMAIN last_register_map_' : last_register_map_'[s] \in Sig!Actions
    BY <1>2, <1>3 DEF Sig!Assign, SignalInv, SignalTypes
  <2>2. IsFiniteSet(DOMAIN register_map_')
    <3>1. IsFiniteSet(DOMAIN register_map_)
      BY DEF SignalInv, SignalTypes
    <3>2. IsFiniteSet(DOMAIN register_map_ \cup {e.sig})
      BY <3>1, FS_AddElement
    <3> QED BY <2>1, <3>2
  <2>3. todo' \in [Sig!Frames -> Seq(SigEntry)] /\ old_action' \in [Sig!Frames -> Sig!Actions \cup {nil}]
    BY <1>1, <1>2 DEF SignalInv, SignalTypes
  <2> QED BY <1>2, <1>3, <2>1, <2>2, <2>3 DEF SignalInv, SignalTypes
<1>8. SignalFrames'
  BY <1>1, <1>2, <1>6 DEF SignalInv, SignalTypes, SignalFrames, Sig!Frames, Sig!Running
<1>9. SignalsTell'
  BY <1>2, <1>4 DEF SignalInv, SignalsTell, Sig!Frames
<1>10. Sig!MapsTell'
  <2> SUFFICES ASSUME NEW s \in DOMAIN register_map_'
               PROVE  \/ s \in crossed \/ \E g \in Sig!Frames : Sig!InFlight(g, s)'
                      \/ register_map_'[s] = action[s] /\ last_register_map_'[s] = sigs_before[s]
    BY <1>2 DEF Sig!MapsTell
  <2>1. CASE s = e.sig
    BY <1>2, <1>5, <2>1 DEF Sig!Assign, SignalInv, SignalTypes
  <2>2. CASE s # e.sig
    <3>1. s \in DOMAIN register_map_ /\ s \in SigNums
      BY <1>2, <2>2 DEF Sig!Assign, SignalInv, SignalTypes
    <3>2. register_map_'[s] = register_map_[s] /\ last_register_map_'[s] = last_register_map_[s]
      BY <1>2, <2>2, <3>1 DEF Sig!Assign, SignalInv, SignalTypes
    <3>3. \A g \in Sig!Frames : Sig!InFlight(g, s) => Sig!InFlight(g, s)'
      BY <1>4, <2>2, <3>1
    <3> QED BY <3>1, <3>2, <3>3 DEF SignalInv, Sig!MapsTell
  <2> QED BY <2>1, <2>2
<1> QED BY <1>7, <1>8, <1>9, <1>10 DEF SignalInv

LEMMA SignalRefused ==
  ASSUME SignalInv, NEW f \in Sig!Frames, Sig!SigactionFails(f)
  PROVE  SignalInv'
<1>1. /\ f = Sig!Running /\ old_action[f] = nil /\ todo' = [todo EXCEPT ![f] = <<>>]
      /\ UNCHANGED <<action, register_map_, last_register_map_, old_action, sigs_inside, sigs_before, crossed>>
  BY DEF Sig!SigactionFails
<1>2. \A g \in Sig!Frames : todo'[g] = IF g = f THEN <<>> ELSE todo[g]
  BY <1>1 DEF SignalInv, SignalTypes
<1>3. SignalTypes'
  BY <1>1 DEF SignalInv, SignalTypes
<1>4. SignalFrames'
  BY <1>1, <1>2 DEF SignalInv, SignalFrames, Sig!Frames
<1>5. \A g \in Sig!Frames, s \in SigNums : Sig!InFlight(g, s)' = Sig!InFlight(g, s)
  BY <1>1, <1>2 DEF Sig!InFlight
<1>6. \A g \in Sig!Frames, s \in SigNums : Sig!InFlight(g, s) => CallTells(g, s)' = CallTells(g, s)
  BY <1>1, <1>2 DEF Sig!InFlight, CallTells
<1>7. SignalsTell'
  BY <1>1, <1>5, <1>6 DEF SignalInv, SignalsTell, Sig!Frames
<1>8. Sig!MapsTell'
  BY <1>1, <1>5 DEF SignalInv, SignalTypes, Sig!MapsTell
<1> QED BY <1>3, <1>4, <1>7, <1>8 DEF SignalInv

LEMMA SignalStep ==
  ASSUME SignalInv, Sig!Next
  PROVE  SignalInv'
<1>1. ASSUME NEW f \in Sig!Frames, NEW s \in SigNums, NEW x \in Sig!Actions, Sig!Register(f, s, x)
      PROVE  SignalInv'
  <2>1. <<[sig |-> s, new |-> x]>> \in Seq(SigEntry)
    BY DEF SigEntry
  <2> QED BY <1>1, <2>1, SignalBegins DEF Sig!Register
<1>2. ASSUME NEW f \in Sig!Frames, NEW s \in SigNums, Sig!UnRegister(f, s)
      PROVE  SignalInv'
  BY <1>1, <1>2 DEF Sig!UnRegister, Sig!Actions
<1>3. ASSUME NEW f \in Sig!Frames, NEW s \in SigNums, Sig!Revert(f, s)
      PROVE  SignalInv'
  BY <1>1, <1>3 DEF Sig!Revert, SignalInv, SignalTypes
<1>4. ASSUME NEW f \in Sig!Frames, Sig!UnRegisterAll(f)
      PROVE  SignalInv'
  <2> DEFINE m == [s \in DOMAIN register_map_ |-> zero]
  <2>1. DOMAIN m = DOMAIN register_map_ /\ \A s \in DOMAIN m : m[s] \in Sig!Actions
    BY DEF Sig!Actions
  <2>2. PICK list \in Sig!Entries(m) : Sig!Begin(f, list)
    BY <1>4 DEF Sig!UnRegisterAll
  <2> HIDE DEF m
  <2>3. list \in Seq(SigEntry)
    BY <2>1, EntriesTyped DEF SignalInv, SignalTypes
  <2> QED BY <2>2, <2>3, SignalBegins
<1>5. ASSUME NEW f \in Sig!Frames, Sig!RevertAll(f)
      PROVE  SignalInv'
  <2>1. PICK list \in Sig!Entries(last_register_map_) : Sig!Begin(f, list)
    BY <1>5 DEF Sig!RevertAll
  <2>2. list \in Seq(SigEntry)
    BY EntriesTyped DEF SignalInv, SignalTypes
  <2> QED BY <2>1, <2>2, SignalBegins
<1>6. CASE Sig!Deliver \/ Sig!HandlerReturns
  <2>1. UNCHANGED <<action, register_map_, last_register_map_, todo, old_action, sigs_before, crossed>>
    BY <1>6 DEF Sig!Deliver, Sig!HandlerReturns
  <2>2. sigs_inside' \/ todo["handler"] = <<>>
    BY <1>6 DEF Sig!Deliver, Sig!HandlerReturns, Sig!Idle
  <2>3. SignalTypes' /\ SignalFrames'
    BY <2>1, <2>2 DEF SignalInv, SignalTypes, SignalFrames
  <2>4. SignalsTell' /\ Sig!MapsTell'
    BY <2>1 DEF SignalInv, SignalsTell, Sig!MapsTell, Sig!InFlight, CallTells
  <2> QED BY <2>3, <2>4 DEF SignalInv
<1> QED BY <1>1, <1>2, <1>3, <1>4, <1>5, <1>6, SignalAsked, SignalRecorded, SignalRefused
        DEF Sig!Next, Sig!Actions

LEMMA SignalIdle == SignalInv /\ UNCHANGED sigs_vars => SignalInv'
BY DEF SignalInv, SignalTypes, SignalFrames, SignalsTell, Sig!MapsTell, Sig!InFlight, CallTells, sigs_vars

(***************************************************************************)
(* Signal masks.  A handler's frame holds what the kernel gives back to    *)
(* the thread, and as long as the handler set no mask, what the object     *)
(* below it remembers is true of that.                                     *)
(***************************************************************************)
Blockable == SUBSET (MaskSigs \ Unmasked)
HandlerFrame == [kind : {"handler"}, mask : Blockable, author : Mask!Objects \cup {nil}, before : Mask!Sets]
AskingFrame == [kind : {"asking"}, by : Mask!Objects]

MaskTypes ==
  /\ kmask \in [Procs -> Blockable] /\ masks_before \in [Procs -> Mask!Sets]
  /\ mask_set_ \in [Mask!Objects -> Mask!Sets] /\ last_mask_set_ \in [Mask!Objects -> Mask!Sets]
  /\ DOMAIN mask_by = Mask!Objects /\ DOMAIN last_by = Mask!Objects
  /\ author \in [Procs -> Mask!Objects \cup {nil}]
  /\ masks_stack \in [Procs -> Seq(HandlerFrame \cup AskingFrame)]

\* What object o remembers of thread t is true of mask m, set after mask old;
\* done: the call that set it has asked for the mask.
ObjectTells(t, o, m, old, done) ==
  o # nil =>
    /\ mask_by[o] = t /\ done => mask_set_[o] \ Unmasked = m
    /\ last_by[o] = t => last_mask_set_[o] = old

\* A handler runs on no other one, and a call in it or under it at most.
Nested(st) ==
  \A i, j \in 1..Len(st) :
    /\ st[i].kind = "handler" /\ st[j].kind = "handler" => i = j
    /\ st[i].kind = "asking" /\ j = i + 1 => st[j].kind = "handler"

\* On thread t with frames st, whose mask object who set.
Under(st, who) ==
  /\ st # <<>> /\ st[Len(st)].kind = "asking" => who \in {st[Len(st)].by, nil}
  /\ \A i \in 1..Len(st) : st[i].kind = "handler" =>
       /\ who = nil => i = Len(st)
       /\ i > 1 => st[i].author \in {st[i - 1].by, nil}

\* What the kernel puts back when a handler that set no mask returns.
KeptBelow(t) ==
  \A i \in 1..Len(masks_stack[t]) : masks_stack[t][i].kind = "handler" /\ author[t] = nil =>
    ObjectTells(t, masks_stack[t][i].author, masks_stack[t][i].mask, masks_stack[t][i].before, i = 1)

MaskInv ==
  /\ MaskTypes
  /\ \A t \in Procs :
       /\ Nested(masks_stack[t]) /\ Under(masks_stack[t], author[t])
       /\ ObjectTells(t, author[t], kmask[t], masks_before[t], Mask!Callable(t)) /\ KeptBelow(t)

LEMMA MaskStart == Mask!Init => MaskInv
<1> SUFFICES ASSUME Mask!Init PROVE MaskInv
  OBVIOUS
<1>1. MaskTypes
  BY DEF Mask!Init, MaskTypes, Blockable, Mask!Sets
<1>2. ASSUME NEW t \in Procs
      PROVE  /\ Nested(masks_stack[t]) /\ Under(masks_stack[t], author[t])
             /\ ObjectTells(t, author[t], kmask[t], masks_before[t], Mask!Callable(t)) /\ KeptBelow(t)
  BY DEF Mask!Init, Nested, Under, ObjectTells, KeptBelow
<1> QED BY <1>1, <1>2 DEF MaskInv

LEMMA MaskMeans == MaskInv => Mask!MasksTell
BY DEF MaskInv, ObjectTells, Mask!MasksTell

\* The top of a thread's stack.
LEMMA MaskTop ==
  ASSUME MaskInv, NEW t \in Procs, masks_stack[t] # <<>>
  PROVE  /\ Len(masks_stack[t]) \in Nat \ {0} /\ Mask!Top(t) = masks_stack[t][Len(masks_stack[t])]
         /\ Mask!Top(t) \in HandlerFrame \cup AskingFrame
         /\ Mask!Callable(t) <=> Mask!Top(t).kind = "handler"
BY DEF MaskInv, MaskTypes, Mask!Top, Mask!Callable, Mask!Top

\* A frame more, and one less.
LEMMA FrameAdded ==
  ASSUME NEW st \in Seq(HandlerFrame \cup AskingFrame), Nested(st), NEW f \in HandlerFrame \cup AskingFrame,
         f.kind = "handler" => \A i \in DOMAIN st : st[i].kind # "handler",
         f.kind = "asking" => (st = <<>> \/ st[Len(st)].kind = "handler")
  PROVE  /\ Append(st, f) \in Seq(HandlerFrame \cup AskingFrame) /\ Nested(Append(st, f))
         /\ Len(Append(st, f)) = Len(st) + 1 /\ Append(st, f)[Len(st) + 1] = f
         /\ \A i \in 1..Len(st) : Append(st, f)[i] = st[i]
<1>1. /\ Append(st, f) \in Seq(HandlerFrame \cup AskingFrame) /\ Len(st) \in Nat
      /\ Len(Append(st, f)) = Len(st) + 1 /\ Append(st, f)[Len(st) + 1] = f
      /\ \A i \in 1..Len(st) : Append(st, f)[i] = st[i]
  OBVIOUS
<1>2. f.kind \in {"handler", "asking"} /\ \A i \in 1..Len(st) : st[i].kind \in {"handler", "asking"}
  BY DEF HandlerFrame, AskingFrame
<1>3. Nested(Append(st, f))
  BY <1>1, <1>2 DEF Nested
<1> QED BY <1>1, <1>3

LEMMA FrameGone ==
  ASSUME NEW st \in Seq(HandlerFrame \cup AskingFrame), st # <<>>, Nested(st)
  PROVE  /\ SubSeq(st, 1, Len(st) - 1) \in Seq(HandlerFrame \cup AskingFrame) /\ Nested(SubSeq(st, 1, Len(st) - 1))
         /\ Len(SubSeq(st, 1, Len(st) - 1)) = Len(st) - 1 /\ Len(st) \in Nat \ {0}
         /\ \A i \in 1..Len(st) - 1 : SubSeq(st, 1, Len(st) - 1)[i] = st[i]
BY FrontOf DEF Nested

\* The threads that make no step keep what they know: an object that another
\* one used says so.
LEMMA MaskOthers ==
  ASSUME MaskInv, NEW t \in Procs, NEW u \in Procs \ {t}, NEW o \in Mask!Objects,
         kmask'[u] = kmask[u], masks_before'[u] = masks_before[u], author'[u] = author[u],
         masks_stack'[u] = masks_stack[u],
         \A p \in Mask!Objects \ {o} : mask_by'[p] = mask_by[p] /\ mask_set_'[p] = mask_set_[p],
         mask_by'[o] = t \/ (mask_by'[o] = mask_by[o] /\ mask_set_'[o] = mask_set_[o]),
         \A p \in Mask!Objects \ {o} : last_by'[p] = last_by[p] /\ last_mask_set_'[p] = last_mask_set_[p],
         last_by'[o] = t \/ (last_by'[o] = last_by[o] /\ last_mask_set_'[o] = last_mask_set_[o])
  PROVE  /\ Nested(masks_stack'[u]) /\ Under(masks_stack'[u], author'[u])
         /\ ObjectTells(u, author[u], kmask[u], masks_before[u], Mask!Callable(u))' /\ KeptBelow(u)'
<1>1. \A p \in Mask!Objects :
        /\ mask_by'[p] = u => mask_by[p] = u /\ mask_set_'[p] = mask_set_[p]
        /\ last_by'[p] = u => last_by[p] = u /\ last_mask_set_'[p] = last_mask_set_[p]
  OBVIOUS
<1>2. Nested(masks_stack'[u]) /\ Under(masks_stack'[u], author'[u])
  BY DEF MaskInv
<1>3. ObjectTells(u, author[u], kmask[u], masks_before[u], Mask!Callable(u))'
  BY <1>1 DEF MaskInv, MaskTypes, ObjectTells, Mask!Callable, Mask!Top
<1>4. KeptBelow(u)'
  <2> SUFFICES ASSUME NEW i \in 1..Len(masks_stack[u]), masks_stack[u][i].kind = "handler", author[u] = nil
               PROVE  ObjectTells(u, masks_stack[u][i].author, masks_stack[u][i].mask,
                      masks_stack[u][i].before, i = 1)'
    BY DEF KeptBelow
  <2>1. ObjectTells(u, masks_stack[u][i].author, masks_stack[u][i].mask, masks_stack[u][i].before, i = 1)
    BY DEF MaskInv, KeptBelow
  <2>2. masks_stack[u][i].author \in Mask!Objects \cup {nil}
    <3>1. masks_stack[u][i] \in HandlerFrame \cup AskingFrame
      BY DEF MaskInv, MaskTypes
    <3> QED BY <3>1 DEF HandlerFrame, AskingFrame
  <2> QED BY <1>1, <2>1, <2>2 DEF ObjectTells
<1> QED BY <1>2, <1>3, <1>4

\* A set of masks by object o: the first half of Mask and UnMask, and
\* MaskReplace.
LEMMA MaskSet ==
  ASSUME MaskInv, NEW t \in Procs, NEW o \in Mask!Objects, NEW new \in Mask!Sets, NEW set \in Mask!Sets,
         Mask!Sigmask(t, o, new),
         Mask!Ask(t, o, set) \/ (/\ new = set /\ mask_set_' = [mask_set_ EXCEPT ![o] = set]
                            /\ mask_by' = [mask_by EXCEPT ![o] = t] /\ UNCHANGED masks_stack)
  PROVE  MaskInv'
<1>1. /\ kmask' = [kmask EXCEPT ![t] = new \ Unmasked] /\ masks_before' = [masks_before EXCEPT ![t] = kmask[t]]
      /\ author' = [author EXCEPT ![t] = o] /\ Mask!Callable(t)
      /\ last_mask_set_' = [last_mask_set_ EXCEPT ![o] = kmask[t]] /\ last_by' = [last_by EXCEPT ![o] = t]
  BY DEF Mask!Sigmask
<1>2. kmask[t] \in Mask!Sets /\ new \ Unmasked \in Blockable /\ o # nil
  BY MaskConstants DEF MaskInv, MaskTypes, Mask!Sets, Blockable
<1>3. CASE Mask!Ask(t, o, set)
  <2>1. masks_stack' = [masks_stack EXCEPT ![t] = Append(masks_stack[t], Mask!Asking(o))] /\ UNCHANGED <<mask_set_, mask_by>>
    BY <1>3 DEF Mask!Ask
  <2>2. /\ Mask!Asking(o) \in HandlerFrame \cup AskingFrame /\ Mask!Asking(o).kind = "asking" /\ Mask!Asking(o).by = o
    BY DEF Mask!Asking, AskingFrame
  <2>3. masks_stack[t] # <<>> => masks_stack[t][Len(masks_stack[t])].kind = "handler"
    BY <1>1, MaskTop
  <2>4. PICK st : st = Append(masks_stack[t], Mask!Asking(o))
    OBVIOUS
  <2>5. /\ st \in Seq(HandlerFrame \cup AskingFrame) /\ Nested(st)
        /\ Len(st) = Len(masks_stack[t]) + 1 /\ st[Len(masks_stack[t]) + 1] = Mask!Asking(o)
        /\ \A i \in 1..Len(masks_stack[t]) : st[i] = masks_stack[t][i]
    <3>1. Mask!Asking(o).kind # "handler" /\ masks_stack[t] \in Seq(HandlerFrame \cup AskingFrame) /\ Nested(masks_stack[t])
      BY <2>2 DEF MaskInv, MaskTypes
    <3> QED BY <2>2, <2>3, <2>4, <3>1, FrameAdded
  <2>6. masks_stack'[t] = st /\ author'[t] = o /\ \A u \in Procs \ {t} : masks_stack'[u] = masks_stack[u]
    BY <1>1, <2>1, <2>4 DEF MaskInv, MaskTypes
  <2>7. MaskTypes'
    BY <1>1, <1>2, <2>1, <2>4, <2>5 DEF MaskInv, MaskTypes
  <2>8. Under(st, o)
    <3>1. PICK n \in Nat : n = Len(masks_stack[t])
      BY DEF MaskInv, MaskTypes
    <3>2. st[Len(st)].kind = "asking" /\ st[Len(st)].by = o
      BY <2>2, <2>5
    <3>3. ASSUME NEW i \in 1..Len(st), st[i].kind = "handler", i > 1
          PROVE  st[i].author \in {st[i - 1].by, nil}
      <4>1. i \in 1..n /\ i - 1 \in 1..n
        BY <2>2, <2>5, <3>1, <3>3
      <4>2. st[i] = masks_stack[t][i] /\ st[i - 1] = masks_stack[t][i - 1]
        BY <2>5, <3>1, <4>1
      <4> QED BY <3>1, <3>3, <4>1, <4>2 DEF MaskInv, Under
    <3> QED BY <1>2, <3>2, <3>3 DEF Under
  <2>9. ObjectTells(t, author[t], kmask[t], masks_before[t], Mask!Callable(t))'
    <3>1. ~Mask!Callable(t)' /\ last_mask_set_'[o] = masks_before'[t]
      BY <1>1, <2>2, <2>5, <2>6 DEF Mask!Callable, Mask!Top, MaskInv, MaskTypes
    <3> QED BY <2>6, <3>1 DEF ObjectTells
  <2>10. KeptBelow(t)'
    BY <1>2, <2>6 DEF KeptBelow
  <2>11. ASSUME NEW u \in Procs \ {t}
         PROVE  /\ Nested(masks_stack'[u]) /\ Under(masks_stack'[u], author'[u])
                /\ ObjectTells(u, author[u], kmask[u], masks_before[u], Mask!Callable(u))' /\ KeptBelow(u)'
    BY <1>1, <2>1, <2>6, MaskOthers DEF MaskInv, MaskTypes
  <2>12. \A u \in Procs :
           /\ Nested(masks_stack'[u]) /\ Under(masks_stack'[u], author'[u])
           /\ ObjectTells(u, author[u], kmask[u], masks_before[u], Mask!Callable(u))' /\ KeptBelow(u)'
    BY <2>5, <2>6, <2>8, <2>9, <2>10, <2>11
  <2> QED BY <2>7, <2>12 DEF MaskInv
<1>4. CASE /\ new = set /\ mask_set_' = [mask_set_ EXCEPT ![o] = set]
           /\ mask_by' = [mask_by EXCEPT ![o] = t] /\ UNCHANGED masks_stack
  <2>1. MaskTypes'
    BY <1>1, <1>2, <1>4 DEF MaskInv, MaskTypes
  <2>2. author'[t] = o /\ masks_stack' = masks_stack /\ Nested(masks_stack[t])
    BY <1>1, <1>4 DEF MaskInv, MaskTypes
  <2>3. Under(masks_stack[t], o)
    BY <1>1, <1>2, MaskTop DEF Under, MaskInv
  <2>4. ObjectTells(t, author[t], kmask[t], masks_before[t], Mask!Callable(t))'
    BY <1>1, <1>4, <2>2 DEF ObjectTells, MaskInv, MaskTypes
  <2>5. KeptBelow(t)'
    BY <1>2, <2>2 DEF KeptBelow
  <2>6. ASSUME NEW u \in Procs \ {t}
        PROVE  /\ Nested(masks_stack'[u]) /\ Under(masks_stack'[u], author'[u])
               /\ ObjectTells(u, author[u], kmask[u], masks_before[u], Mask!Callable(u))' /\ KeptBelow(u)'
    BY <1>1, <1>4, MaskOthers DEF MaskInv, MaskTypes
  <2>7. \A u \in Procs :
          /\ Nested(masks_stack'[u]) /\ Under(masks_stack'[u], author'[u])
          /\ ObjectTells(u, author[u], kmask[u], masks_before[u], Mask!Callable(u))' /\ KeptBelow(u)'
    BY <2>2, <2>3, <2>4, <2>5, <2>6
  <2> QED BY <2>1, <2>7 DEF MaskInv
<1> QED BY <1>3, <1>4

\* The second half of Mask and UnMask.
LEMMA MaskAsked ==
  ASSUME MaskInv, NEW t \in Procs, Mask!GetMask(t)
  PROVE  MaskInv'
<1>1. masks_stack[t] # <<>> /\ ~Mask!Callable(t)
  BY DEF Mask!GetMask, Mask!Callable, Mask!Top
<1>2. PICK o : o = Mask!Top(t).by
  OBVIOUS
<1>3. PICK st : st = SubSeq(masks_stack[t], 1, Len(masks_stack[t]) - 1)
  OBVIOUS
<1>4. PICK n \in Nat \ {0} : n = Len(masks_stack[t])
  BY <1>1, MaskTop
<1>5. Mask!Top(t) = masks_stack[t][n] /\ masks_stack[t][n].kind = "asking" /\ o \in Mask!Objects
  BY <1>1, <1>2, <1>4, MaskTop DEF HandlerFrame, AskingFrame
<1>6. /\ mask_set_' = [mask_set_ EXCEPT ![o] = kmask[t]] /\ mask_by' = [mask_by EXCEPT ![o] = t]
      /\ masks_stack' = [masks_stack EXCEPT ![t] = st]
      /\ UNCHANGED <<kmask, last_mask_set_, last_by, author, masks_before>>
  BY <1>2, <1>3 DEF Mask!GetMask
<1>7. /\ st \in Seq(HandlerFrame \cup AskingFrame) /\ Nested(st) /\ Len(st) = n - 1
      /\ \A i \in 1..n - 1 : st[i] = masks_stack[t][i]
  BY <1>1, <1>3, <1>4, FrameGone DEF MaskInv, MaskTypes
<1>8. masks_stack'[t] = st /\ \A u \in Procs \ {t} : masks_stack'[u] = masks_stack[u]
  BY <1>6 DEF MaskInv, MaskTypes
<1>9. kmask[t] \in Mask!Sets /\ kmask[t] \ Unmasked = kmask[t]
  BY DEF MaskInv, MaskTypes, Mask!Sets, Blockable
<1>10. author[t] \in {o, nil} /\ Under(masks_stack[t], author[t]) /\ Nested(masks_stack[t])
  BY <1>1, <1>2, <1>4, <1>5 DEF MaskInv, Under
<1>11. \A i \in 1..n - 1 : st[i].kind = "handler" => author[t] # nil
  BY <1>4, <1>7, <1>10 DEF Under
<1>12. MaskTypes'
  BY <1>6, <1>7, <1>9 DEF MaskInv, MaskTypes
<1>13. Under(st, author[t])
  <2>1. st # <<>> => st[n - 1].kind = "handler"
    <3>1. st # <<>> => n - 1 \in 1..n /\ n \in 1..n /\ n = (n - 1) + 1 /\ st[n - 1] = masks_stack[t][n - 1]
      BY <1>4, <1>7
    <3>2. st # <<>> => masks_stack[t][n - 1].kind # "asking"
      BY <1>4, <1>5, <1>10, <3>1 DEF Nested
    <3>3. st # <<>> => masks_stack[t][n - 1] \in HandlerFrame \cup AskingFrame
      BY <1>4, <3>1 DEF MaskInv, MaskTypes
    <3> QED BY <3>1, <3>2, <3>3 DEF HandlerFrame, AskingFrame
  <2>2. ASSUME NEW i \in 1..Len(st), st[i].kind = "handler", i > 1
        PROVE  st[i].author \in {st[i - 1].by, nil}
    <3>1. i \in 1..n - 1 /\ i - 1 \in 1..n - 1 /\ i \in 1..n
      BY <1>4, <1>7, <2>2
    <3> QED BY <1>4, <1>7, <1>10, <2>2, <3>1 DEF Under
  <2>3. \A i \in 1..Len(st) : st[i].kind = "handler" => author[t] # nil
    BY <1>7, <1>11
  <2>4. st # <<>> => st[Len(st)].kind # "asking"
    BY <1>7, <2>1
  <2> QED BY <2>2, <2>3, <2>4 DEF Under
<1>14. ObjectTells(t, author[t], kmask[t], masks_before[t], Mask!Callable(t))'
  BY <1>5, <1>6, <1>9, <1>10 DEF ObjectTells, MaskInv, MaskTypes
<1>15. KeptBelow(t)'
  BY <1>6, <1>7, <1>8, <1>11 DEF KeptBelow
<1>16. ASSUME NEW u \in Procs \ {t}
       PROVE  /\ Nested(masks_stack'[u]) /\ Under(masks_stack'[u], author'[u])
              /\ ObjectTells(u, author[u], kmask[u], masks_before[u], Mask!Callable(u))' /\ KeptBelow(u)'
  BY <1>5, <1>6, <1>8, MaskOthers DEF MaskInv, MaskTypes
<1>17. \A u \in Procs :
         /\ Nested(masks_stack'[u]) /\ Under(masks_stack'[u], author'[u])
         /\ ObjectTells(u, author[u], kmask[u], masks_before[u], Mask!Callable(u))' /\ KeptBelow(u)'
  BY <1>6, <1>7, <1>8, <1>13, <1>14, <1>15, <1>16
<1> QED BY <1>12, <1>17 DEF MaskInv

\* A signal arrives.
LEMMA MaskSignal ==
  ASSUME MaskInv, NEW t \in Procs, NEW s \in MaskSigs, Mask!Handler(t, s)
  PROVE  MaskInv'
<1>1. PICK f : f = Mask!Frame(t)
  OBVIOUS
<1>2. PICK st : st = Append(masks_stack[t], f)
  OBVIOUS
<1>3. PICK n \in Nat : n = Len(masks_stack[t])
  BY DEF MaskInv, MaskTypes
<1>4. /\ f.kind = "handler" /\ f.mask = kmask[t] /\ f.author = author[t] /\ f.before = masks_before[t]
      /\ f \in HandlerFrame \cup AskingFrame
  BY <1>1 DEF Mask!Frame, HandlerFrame, MaskInv, MaskTypes
<1>5. /\ masks_stack' = [masks_stack EXCEPT ![t] = st] /\ kmask' = [kmask EXCEPT ![t] = kmask[t] \cup {s}]
      /\ author' = [author EXCEPT ![t] = nil] /\ UNCHANGED <<Mask!kept, masks_before>>
      /\ s \notin Unmasked /\ \A i \in 1..n : masks_stack[t][i].kind # "handler"
  <2>1. masks_stack' = [masks_stack EXCEPT ![t] = Append(masks_stack[t], Mask!Frame(t))]
    BY DEF Mask!Handler, MaskInv, MaskTypes
  <2>2. kmask' = [kmask EXCEPT ![t] = kmask[t] \cup {s}] /\ author' = [author EXCEPT ![t] = nil]
    BY DEF Mask!Handler, MaskInv, MaskTypes
  <2>3. UNCHANGED <<Mask!kept, masks_before>> /\ s \notin Unmasked
    BY DEF Mask!Handler
  <2>4. \A i \in 1..n : masks_stack[t][i].kind # "handler"
    <3>1. masks_stack[t] \in Seq(HandlerFrame \cup AskingFrame)
      BY DEF MaskInv, MaskTypes
    <3>2. DOMAIN masks_stack[t] = 1..n
      BY <1>3, <3>1
    <3> QED BY <3>2 DEF Mask!Handler
  <2> QED BY <1>1, <1>2, <2>1, <2>2, <2>3, <2>4
<1>6. /\ st \in Seq(HandlerFrame \cup AskingFrame) /\ Nested(st) /\ Len(st) = n + 1 /\ st[n + 1] = f
      /\ \A i \in 1..n : st[i] = masks_stack[t][i]
  <2>1. f.kind # "asking" /\ masks_stack[t] \in Seq(HandlerFrame \cup AskingFrame) /\ Nested(masks_stack[t])
        /\ \A i \in DOMAIN masks_stack[t] : masks_stack[t][i].kind # "handler"
    BY <1>3, <1>4, <1>5 DEF MaskInv, MaskTypes
  <2> QED BY <1>2, <1>3, <1>4, <2>1, FrameAdded
<1>7. masks_stack'[t] = st /\ author'[t] = nil /\ \A u \in Procs \ {t} : masks_stack'[u] = masks_stack[u]
  BY <1>5 DEF MaskInv, MaskTypes
<1>8. MaskTypes'
  BY <1>5, <1>6 DEF MaskInv, MaskTypes, Blockable, Mask!kept
<1>9. n > 0 => masks_stack[t] # <<>> /\ masks_stack[t][n].kind = "asking"
  <2>1. n > 0 => masks_stack[t][n] \in HandlerFrame \cup AskingFrame
    BY <1>3 DEF MaskInv, MaskTypes
  <2> QED BY <1>3, <1>5, <2>1 DEF HandlerFrame, AskingFrame
<1>10. Under(st, nil)
  <2>1. \A i \in 1..Len(st) : st[i].kind = "handler" => i = n + 1
    BY <1>3, <1>5, <1>6
  <2>2. n + 1 > 1 => f.author \in {st[n].by, nil} /\ st[(n + 1) - 1] = st[n]
    BY <1>3, <1>4, <1>6, <1>9 DEF MaskInv, Under
  <2>3. st[Len(st)].kind = "handler"
    BY <1>4, <1>6
  <2> QED BY <1>6, <2>1, <2>2, <2>3 DEF Under
<1>11. ObjectTells(t, author[t], kmask[t], masks_before[t], Mask!Callable(t))'
  BY <1>7 DEF ObjectTells
<1>12. KeptBelow(t)'
  <2> SUFFICES ASSUME NEW i \in 1..Len(st), st[i].kind = "handler"
               PROVE  ObjectTells(t, st[i].author, st[i].mask, st[i].before, i = 1)'
    BY <1>7 DEF KeptBelow
  <2>1. i = n + 1 /\ st[i] = f
    <3>1. i \in 1..n \/ i = n + 1
      BY <1>6
    <3>2. ASSUME i \in 1..n PROVE FALSE
      <4>1. st[i] = masks_stack[t][i]
        BY <1>6, <3>2
      <4>2. masks_stack[t][i].kind # "handler"
        BY <1>5, <3>2
      <4> QED BY <4>1, <4>2
    <3> QED BY <1>6, <3>1, <3>2
  <2>2. i = 1 => Mask!Callable(t)
    BY <1>3, <2>1 DEF Mask!Callable, Mask!Top, MaskInv, MaskTypes
  <2> QED BY <1>4, <1>5, <2>1, <2>2 DEF MaskInv, ObjectTells, Mask!kept
<1>13. ASSUME NEW u \in Procs \ {t}
       PROVE  /\ Nested(masks_stack'[u]) /\ Under(masks_stack'[u], author'[u])
              /\ ObjectTells(u, author[u], kmask[u], masks_before[u], Mask!Callable(u))' /\ KeptBelow(u)'
  BY <1>5, <1>7 DEF MaskInv, MaskTypes, Mask!kept, ObjectTells, Mask!Callable, Mask!Top, KeptBelow
<1>14. \A u \in Procs :
         /\ Nested(masks_stack'[u]) /\ Under(masks_stack'[u], author'[u])
         /\ ObjectTells(u, author[u], kmask[u], masks_before[u], Mask!Callable(u))' /\ KeptBelow(u)'
  BY <1>6, <1>7, <1>10, <1>11, <1>12, <1>13
<1> QED BY <1>8, <1>14 DEF MaskInv

\* The kernel gives the thread back the mask it had.
LEMMA MaskReturned ==
  ASSUME MaskInv, NEW t \in Procs, Mask!HandlerReturns(t)
  PROVE  MaskInv'
<1>1. PICK f : f = Mask!Top(t)
  OBVIOUS
<1>2. PICK st : st = SubSeq(masks_stack[t], 1, Len(masks_stack[t]) - 1)
  OBVIOUS
<1>3. PICK n \in Nat \ {0} : n = Len(masks_stack[t])
  BY MaskTop DEF Mask!HandlerReturns
<1>4. masks_stack[t] # <<>> /\ f = masks_stack[t][n] /\ f.kind = "handler" /\ f \in HandlerFrame
  BY <1>1, <1>3, MaskTop DEF Mask!HandlerReturns, AskingFrame
<1>5. PICK who : who = IF author[t] = nil THEN f.author ELSE nil
  OBVIOUS
<1>6. /\ masks_stack' = [masks_stack EXCEPT ![t] = st] /\ kmask' = [kmask EXCEPT ![t] = f.mask]
      /\ author' = [author EXCEPT ![t] = who] /\ masks_before' = [masks_before EXCEPT ![t] = f.before]
      /\ UNCHANGED <<mask_set_, last_mask_set_, mask_by, last_by>>
  BY <1>1, <1>2, <1>5 DEF Mask!HandlerReturns, Mask!kept
<1>7. /\ f.mask \in Blockable /\ f.before \in Mask!Sets /\ f.author \in Mask!Objects \cup {nil}
      /\ who \in Mask!Objects \cup {nil}
  BY <1>4, <1>5 DEF HandlerFrame
<1>8. /\ st \in Seq(HandlerFrame \cup AskingFrame) /\ Nested(st) /\ Len(st) = n - 1
      /\ \A i \in 1..n - 1 : st[i] = masks_stack[t][i]
  BY <1>2, <1>3, <1>4, FrameGone DEF MaskInv, MaskTypes
<1>9. /\ masks_stack'[t] = st /\ author'[t] = who /\ kmask'[t] = f.mask /\ masks_before'[t] = f.before
      /\ \A u \in Procs \ {t} : masks_stack'[u] = masks_stack[u] /\ author'[u] = author[u]
      /\ \A u \in Procs \ {t} : kmask'[u] = kmask[u] /\ masks_before'[u] = masks_before[u]
  BY <1>6 DEF MaskInv, MaskTypes
<1>10. MaskTypes'
  BY <1>6, <1>7, <1>8 DEF MaskInv, MaskTypes
<1>11. \A i \in 1..n - 1 : st[i].kind = "asking"
  <2> SUFFICES ASSUME NEW i \in 1..n - 1 PROVE masks_stack[t][i].kind = "asking"
    BY <1>8
  <2>1. i \in 1..n /\ n \in 1..n /\ i # n
    BY <1>3
  <2>2. masks_stack[t][i].kind # "handler"
    BY <1>3, <1>4, <2>1 DEF MaskInv, Nested
  <2>3. masks_stack[t][i] \in HandlerFrame \cup AskingFrame
    BY <1>3, <2>1 DEF MaskInv, MaskTypes
  <2> QED BY <2>2, <2>3 DEF HandlerFrame, AskingFrame
<1>12. Under(st, who)
  <2>1. n > 1 => f.author \in {masks_stack[t][n - 1].by, nil}
    BY <1>3, <1>4 DEF MaskInv, Under
  <2>2. st # <<>> => n > 1 /\ st[Len(st)] = masks_stack[t][n - 1]
    BY <1>3, <1>8
  <2> QED BY <1>5, <1>8, <1>11, <2>1, <2>2 DEF Under
<1>13. ObjectTells(t, author[t], kmask[t], masks_before[t], Mask!Callable(t))'
  <2>1. Mask!Callable(t)' => n = 1
    <3>1. n # 1 => n - 1 \in 1..n - 1
      BY ONLY n \in Nat \ {0}
    <3>2. n # 1 => st # <<>> /\ st[Len(st)].kind # "handler"
      BY <1>3, <1>8, <1>11, <3>1 
    <3> QED BY <1>9, <3>2 DEF Mask!Callable, Mask!Top
  <2>2. author[t] = nil => ObjectTells(t, f.author, f.mask, f.before, n = 1)
    BY <1>3, <1>4 DEF MaskInv, KeptBelow, ObjectTells
  <2> QED BY <1>5, <1>6, <1>9, <2>1, <2>2 DEF ObjectTells
<1>14. KeptBelow(t)'
  BY <1>8, <1>9, <1>11 DEF KeptBelow
<1>15. ASSUME NEW u \in Procs \ {t}
       PROVE  /\ Nested(masks_stack'[u]) /\ Under(masks_stack'[u], author'[u])
              /\ ObjectTells(u, author[u], kmask[u], masks_before[u], Mask!Callable(u))' /\ KeptBelow(u)'
  BY <1>6, <1>9, MaskOthers DEF Mask!Objects
<1>16. \A u \in Procs :
         /\ Nested(masks_stack'[u]) /\ Under(masks_stack'[u], author'[u])
         /\ ObjectTells(u, author[u], kmask[u], masks_before[u], Mask!Callable(u))' /\ KeptBelow(u)'
  BY <1>8, <1>9, <1>12, <1>13, <1>14, <1>15
<1> QED BY <1>10, <1>16 DEF MaskInv

LEMMA MaskStep ==
  ASSUME MaskInv, Mask!Next
  PROVE  MaskInv'
<1>1. ASSUME NEW t \in Procs, NEW o \in Mask!Objects, NEW set \in Mask!Sets,
             Mask!Mask(t, o, set) \/ Mask!UnMask(t, o, set)
      PROVE  MaskInv'
  <2>1. kmask[t] \cup set \in Mask!Sets /\ kmask[t] \ set \in Mask!Sets
    BY DEF MaskInv, MaskTypes, Mask!Sets, Blockable
  <2> QED BY <1>1, <2>1, MaskSet DEF Mask!Mask, Mask!UnMask
<1>2. ASSUME NEW t \in Procs, NEW o \in Mask!Objects, NEW set \in Mask!Sets, Mask!MaskReplace(t, o, set)
      PROVE  MaskInv'
  BY <1>2, MaskSet DEF Mask!MaskReplace
<1>3. ASSUME NEW t \in Procs, NEW o \in Mask!Objects, Mask!MaskRevert(t, o)
      PROVE  MaskInv'
  BY <1>1, <1>3 DEF Mask!MaskRevert, MaskInv, MaskTypes
<1>4. top \in Mask!Objects /\ \A t \in Procs : t \in Mask!Objects
  BY DEF Mask!Objects
<1> QED BY <1>1, <1>2, <1>3, <1>4, MaskAsked, MaskSignal, MaskReturned
        DEF Mask!Next, Mask!ProcessMask, Mask!ProcessUnMask, Mask!ProcessMaskReplace,
            Mask!ProcessMaskRevert, Mask!ThreadMask, Mask!ThreadUnMask,
            Mask!ThreadMaskReplace, Mask!ThreadMaskRevert

LEMMA MaskIdle == MaskInv /\ UNCHANGED masks_vars => MaskInv'
BY DEF MaskInv, MaskTypes, ObjectTells, Mask!Callable, Mask!Top, KeptBelow, masks_vars, Mask!kept

-----------------------------------------------------------------------------
(***************************************************************************)
(* Sockets: each object closes the descriptor it has, and no other.        *)
(***************************************************************************)
LEMMA SockConstants == FdMax \in Nat /\ SockOthers \cap (SockServers \cup SockClients) = {}
BY PartsAssumption

\* An object that closes by itself is no copy and was copied by none; one
\* that has a claim and is no copy is initialised.
SockInv ==
  /\ Sock!TypeOK /\ Sock!OwnDescriptors
  /\ sock_alive \subseteq Sock!Objects /\ SockServers \cup SockClients \subseteq sock_alive
  /\ \A o \in sock_claim \ sock_shared : sock_init_flag[o]
  /\ \A o \in sock_shared : ~sock_auto_close[o]
  /\ \A o \in SockOthers \cap sock_alive : sock_auto_close[o] => sock_init_flag[o]

LEMMA SockStart == Sock!Init => SockInv
<1> SUFFICES ASSUME Sock!Init PROVE SockInv
  OBVIOUS
<1>1. sock_fd \in [Sock!Objects -> 0..FdMax]
  BY SockConstants DEF Sock!Init
<1>2. sock_init_flag \in [Sock!Objects -> BOOLEAN] /\ sock_auto_close \in [Sock!Objects -> BOOLEAN]
  BY DEF Sock!Init
<1>3. Sock!TypeOK
  BY <1>1, <1>2 DEF Sock!Init, Sock!TypeOK
<1>4. sock_alive \subseteq Sock!Objects
  BY DEF Sock!Init, Sock!Objects
<1>5. Sock!OwnDescriptors
  BY <1>4 DEF Sock!Init, Sock!OwnDescriptors
<1>6. \A o \in SockOthers \cap sock_alive : sock_auto_close[o] => sock_init_flag[o]
  BY SockConstants DEF Sock!Init
<1> QED BY <1>3, <1>4, <1>5, <1>6 DEF Sock!Init, SockInv

\* What is left of the claims when o gives up its descriptor and takes new.
SockLeft(o, new) ==
  /\ sock_claim' = (sock_claim \ {o}) \cup (IF new = {} THEN {} ELSE {o})
  /\ sock_open' \subseteq 1..FdMax
  /\ sock_open' = sock_lost' \cup new \cup {sock_fd[p] : p \in sock_claim \ {o}}

LEMMA SockReplaced ==
  ASSUME SockInv, NEW o \in sock_alive, NEW closes \in BOOLEAN, NEW new \in SUBSET (1..FdMax), Sock!Replace(o, closes, new),
         closes => o \notin sock_shared /\ sock_init_flag[o],
         ~closes /\ o \in sock_claim => ~sock_auto_close[o],
         o \in sock_claim => sock_fd[o] \notin new,
         new = {} \/ \E d : new = {d} 
  PROVE  SockLeft(o, new)
<1> USE DEF SockLeft
<1>1. closes => Sock!Holders(sock_fd[o]) = {o}
  BY DEF SockInv, Sock!OwnDescriptors
<1>2. sock_claim' = (sock_claim \ {o}) \cup (IF new = {} THEN {} ELSE {o})
  BY <1>1 DEF Sock!Replace
<1>3. sock_open = sock_lost \cup {sock_fd[p] : p \in sock_claim} /\ sock_open \subseteq 1..FdMax
  BY DEF SockInv, Sock!OwnDescriptors, Sock!TypeOK
<1>4. sock_open' \subseteq 1..FdMax
  BY <1>3 DEF Sock!Replace
<1>5. CASE closes
  <2>1. \A p \in sock_claim \ {o} : sock_fd[p] # sock_fd[o]
    BY <1>1, <1>5 DEF Sock!Holders
  <2>2. sock_open' = (sock_open \ {sock_fd[o]}) \cup new /\ sock_lost' = (sock_lost \ {sock_fd[o]}) \ new
    BY <1>5 DEF Sock!Replace
  <2> QED BY <1>2, <1>3, <1>4, <2>1, <2>2
<1>6. CASE ~closes
  <2>1. sock_open' = sock_open \cup new
    BY <1>6 DEF Sock!Replace
  <2>2. CASE o \in sock_claim /\ Sock!Holders(sock_fd[o]) = {o}
    <3>1. sock_lost' = (sock_lost \cup {sock_fd[o]}) \ new
      BY <1>6, <2>2 DEF Sock!Replace
    <3> QED BY <1>2, <1>3, <1>4, <2>1, <2>2, <3>1
  <2>3. CASE ~(o \in sock_claim /\ Sock!Holders(sock_fd[o]) = {o})
    <3>1. sock_lost' = sock_lost \ new
      BY <1>6, <2>3 DEF Sock!Replace
    <3>2. o \in sock_claim => \E p \in sock_claim \ {o} : sock_fd[p] = sock_fd[o]
      BY <2>3 DEF Sock!Holders
    <3> QED BY <1>2, <1>3, <1>4, <2>1, <3>1, <3>2
  <2> QED BY <2>2, <2>3
<1> QED BY <1>5, <1>6

\* What becomes of the one object o that a step changes: fl and au are its
\* flags then, d its number, and has is {o} when it has a claim.
SockTurns(o, d, fl, au, has) ==
  /\ sock_fd' = [sock_fd EXCEPT ![o] = d] /\ sock_init_flag' = [sock_init_flag EXCEPT ![o] = fl]
  /\ sock_auto_close' = [sock_auto_close EXCEPT ![o] = au] /\ auto_close_flag_' \in BOOLEAN
  /\ sock_claim' = (sock_claim \ {o}) \cup has /\ has \subseteq sock_alive' \cap {o}
  /\ sock_alive' \subseteq Sock!Objects /\ sock_alive' \cup {o} = sock_alive \cup {o} /\ SockServers \cup SockClients \subseteq sock_alive'
  /\ sock_open' \subseteq 1..FdMax
  /\ sock_open' = sock_lost' \cup {sock_fd[p] : p \in sock_claim \ {o}} \cup (IF has = {} THEN {} ELSE {d})
  /\ sock_shared \ {o} \subseteq sock_shared' /\ sock_shared' \subseteq Sock!Objects
  /\ \A p \in sock_shared' : ~sock_auto_close'[p]
  /\ o \in sock_alive' /\ o \notin sock_shared' /\ fl => has = {o}
  /\ has # {} /\ o \notin sock_shared' => fl
  /\ has # {} => \A p \in sock_claim \ {o} : sock_fd[p] = d => p \in sock_shared' /\ o \in sock_shared'
  /\ o \in SockOthers \cap sock_alive' /\ au => fl

LEMMA SockNow ==
  ASSUME SockInv, NEW o \in Sock!Objects, NEW d \in 0..FdMax, NEW fl \in BOOLEAN, NEW au \in BOOLEAN,
         NEW has, SockTurns(o, d, fl, au, has)
  PROVE  SockInv'
<1> USE DEF SockTurns
<1>1. /\ sock_fd \in [Sock!Objects -> 0..FdMax] /\ sock_init_flag \in [Sock!Objects -> BOOLEAN] /\ sock_auto_close \in [Sock!Objects -> BOOLEAN]
      /\ sock_claim \subseteq sock_alive /\ sock_alive \subseteq Sock!Objects
  BY DEF SockInv, Sock!TypeOK
<1>2. sock_fd' \in [Sock!Objects -> 0..FdMax] /\ sock_fd'[o] = d /\ \A p \in Sock!Objects \ {o} : sock_fd'[p] = sock_fd[p]
  BY <1>1
<1>3. /\ sock_init_flag' \in [Sock!Objects -> BOOLEAN] /\ sock_auto_close' \in [Sock!Objects -> BOOLEAN]
      /\ sock_init_flag'[o] = fl /\ sock_auto_close'[o] = au
      /\ \A p \in Sock!Objects \ {o} : sock_init_flag'[p] = sock_init_flag[p] /\ sock_auto_close'[p] = sock_auto_close[p]
  BY <1>1, Zenon
<1>4. sock_claim' \subseteq sock_alive'
  BY <1>1
<1>5. sock_open' = sock_lost' \cup {sock_fd'[p] : p \in sock_claim'}
  <2>1. {sock_fd'[p] : p \in sock_claim'} = {sock_fd[p] : p \in sock_claim \ {o}} \cup (IF has = {} THEN {} ELSE {d})
    BY <1>1, <1>2
  <2> QED BY <2>1
<1>6. Sock!TypeOK'
  BY <1>2, <1>3, <1>4, <1>5 DEF Sock!TypeOK
<1>7. ASSUME NEW p \in sock_alive', p \notin sock_shared', sock_init_flag'[p]
      PROVE  sock_fd'[p] \in sock_open' /\ Sock!Holders(sock_fd[p])' = {p}
  <2>1. CASE p = o
    <3>1. has = {o}
      BY <1>3, <1>7, <2>1
    <3>2. \A q \in sock_claim' : sock_fd'[q] = d => q = o
      BY <1>1, <1>2, <3>1, <1>7, <2>1
    <3> QED BY <1>2, <1>5, <2>1, <3>1, <3>2 DEF Sock!Holders
  <2>2. CASE p # o
    <3>1. p \in sock_alive \ sock_shared /\ sock_init_flag[p] /\ sock_fd'[p] = sock_fd[p]
      BY <1>1, <1>2, <1>3, <1>7, <2>2
    <3>2. Sock!Holders(sock_fd[p]) = {p}
      BY <3>1 DEF SockInv, Sock!OwnDescriptors
    <3>3. p \in sock_claim /\ p \in sock_claim' /\ \A q \in sock_claim : sock_fd[q] = sock_fd[p] => q = p
      BY <2>2, <3>2 DEF Sock!Holders
    <3>4. \A q \in sock_claim' : sock_fd'[q] = sock_fd[p] => q = p
      BY <1>1, <1>2, <1>7, <2>2, <3>3
    <3> QED BY <1>5, <3>1, <3>3, <3>4 DEF Sock!Holders
  <2> QED BY <2>1, <2>2
<1>8. Sock!OwnDescriptors'
  BY <1>5, <1>7 DEF Sock!OwnDescriptors
<1>9. \A p \in sock_claim' \ sock_shared' : sock_init_flag'[p]
  BY <1>1, <1>3 DEF SockInv
<1>10. \A p \in SockOthers \cap sock_alive' : sock_auto_close'[p] => sock_init_flag'[p]
  BY <1>1, <1>3 DEF SockInv
<1> QED BY <1>6, <1>8, <1>9, <1>10 DEF SockInv, Sock!Objects

\* A new descriptor for o, at SetFD.
LEMMA SockSet ==
  ASSUME SockInv, NEW o \in sock_alive, NEW d \in Sock!NewFds, NEW auto \in BOOLEAN, Sock!SetFD(o, d, auto),
         UNCHANGED <<sock_alive, auto_close_flag_>>
  PROVE  SockInv'
<1> DEFINE closes == sock_fd[o] > 0 /\ sock_init_flag[o] /\ sock_auto_close[o]
<1>1. o \in Sock!Objects /\ sock_fd[o] \in 0..FdMax /\ d \in 1..FdMax /\ d \notin sock_open
  BY DEF SockInv, Sock!TypeOK, Sock!NewFds
<1>2. o \in sock_claim => sock_fd[o] \in sock_open /\ sock_fd[o] > 0
  BY <1>1, SockConstants DEF SockInv, Sock!OwnDescriptors, Sock!TypeOK
<1>3. closes => o \notin sock_shared /\ sock_init_flag[o]
  BY DEF SockInv
<1>4. ~closes /\ o \in sock_claim => ~sock_auto_close[o]
  BY <1>2 DEF SockInv
<1>5. closes => sock_fd[o] \in sock_open
  BY <1>3 DEF SockInv, Sock!OwnDescriptors
<1>6. /\ sock_claim' = (sock_claim \ {o}) \cup {o} /\ sock_open' \subseteq 1..FdMax
      /\ sock_open' = sock_lost' \cup {d} \cup {sock_fd[p] : p \in sock_claim \ {o}}
  <2>1. Sock!Replace(o, closes, {d}) /\ {d} \subseteq 1..FdMax /\ {d} # {}
    BY <1>1 DEF Sock!SetFD
  <2>2. o \in sock_claim => sock_fd[o] \notin {d}
    BY <1>1, <1>2
  <2>3. closes \in BOOLEAN
    OBVIOUS
  <2> HIDE DEF closes
  <2>4. SockLeft(o, {d})
    BY <1>3, <1>4, <2>1, <2>2, <2>3, SockReplaced
  <2> QED BY <2>4 DEF SockLeft
<1>7. \A p \in sock_claim : sock_fd[p] # d
  BY <1>1 DEF SockInv, Sock!OwnDescriptors
<1>8. /\ sock_fd' = [sock_fd EXCEPT ![o] = d] /\ sock_init_flag' = [sock_init_flag EXCEPT ![o] = TRUE]
      /\ sock_auto_close' = [sock_auto_close EXCEPT ![o] = auto] /\ sock_shared' = sock_shared \ {o}
  BY DEF Sock!SetFD
<1>9. \A p \in sock_shared' : ~sock_auto_close'[p]
  BY <1>8 DEF SockInv, Sock!TypeOK
<1>10. d \in 0..FdMax /\ {o} \in SUBSET {o} /\ {o} # {}
  BY <1>1
<1>11. auto_close_flag_' \in BOOLEAN /\ sock_alive' \subseteq Sock!Objects /\ SockServers \cup SockClients \subseteq sock_alive' /\ sock_shared' \subseteq Sock!Objects
  BY <1>8 DEF SockInv, Sock!TypeOK
<1>12. /\ {o} \subseteq sock_alive' /\ sock_alive' \cup {o} = sock_alive \cup {o} /\ sock_shared \ {o} \subseteq sock_shared'
       /\ sock_open' = sock_lost' \cup {sock_fd[p] : p \in sock_claim \ {o}} \cup (IF {o} = {} THEN {} ELSE {d})
  BY <1>6, <1>8
<1>13. \A p \in sock_claim \ {o} : sock_fd[p] = d => p \in sock_shared' /\ o \in sock_shared'
  BY <1>7
<1> HIDE DEF closes
<1>14. SockTurns(o, d, TRUE, auto, {o})
  BY <1>1, <1>6, <1>8, <1>9, <1>10, <1>11, <1>12, <1>13 DEF SockTurns
<1>15. TRUE \in BOOLEAN
  OBVIOUS
<1> QED BY <1>1, <1>10, <1>14, <1>15, SockNow

\* Two objects claim one descriptor only if both are copies or were copied.
LEMMA SockClaims ==
  ASSUME SockInv
  PROVE  /\ \A p, q \in sock_claim : sock_fd[p] = sock_fd[q] /\ p # q => p \in sock_shared /\ q \in sock_shared
         /\ \A p \in sock_claim : sock_fd[p] \in sock_open /\ sock_fd[p] > 0 /\ sock_fd[p] \in 0..FdMax /\ p \in sock_alive /\ p \in Sock!Objects
<1>1. \A p \in sock_claim \ sock_shared : Sock!Holders(sock_fd[p]) = {p}
  BY DEF SockInv, Sock!TypeOK, Sock!OwnDescriptors
<1>2. \A p \in sock_claim : sock_fd[p] \in sock_open /\ sock_fd[p] \in 0..FdMax /\ p \in sock_alive /\ p \in Sock!Objects /\ sock_open \subseteq 1..FdMax
  BY DEF SockInv, Sock!TypeOK, Sock!OwnDescriptors
<1> QED BY <1>1, <1>2, SockConstants DEF Sock!Holders

\* A descriptor that nobody is to close leaves the objects as they are.
LEMMA SockLeak ==
  ASSUME SockInv, NEW d \in Sock!NewFds, Sock!Leak(d)
  PROVE  SockInv'
<1>1. sock_open' = sock_open \cup {d} /\ sock_lost' = sock_lost \cup {d} /\ d \in 1..FdMax
      /\ UNCHANGED <<sock_alive, sock_fd, sock_init_flag, sock_auto_close, auto_close_flag_, sock_claim, sock_shared>>
  BY DEF Sock!Leak, Sock!NewFds
<1>2. Sock!TypeOK'
  BY <1>1 DEF SockInv, Sock!TypeOK
<1>3. Sock!OwnDescriptors'
  BY <1>1 DEF SockInv, Sock!OwnDescriptors, Sock!Holders
<1> QED BY <1>1, <1>2, <1>3 DEF SockInv

LEMMA SockBindFails ==
  ASSUME SockInv, NEW o \in SockServers, Sock!BindFails(o)
  PROVE  SockInv'
<1> DEFINE closes == sock_fd[o] > 0 /\ sock_init_flag[o] /\ sock_auto_close[o]
<1>1. o \in sock_alive /\ o \in Sock!Objects /\ closes \in BOOLEAN
  BY DEF SockInv, Sock!Objects
<1>2. PICK d \in Sock!NewFds : Sock!Replace(o, closes, {}) /\ sock_fd' = [sock_fd EXCEPT ![o] = d]
  BY DEF Sock!BindFails
<1>3. d \in 0..FdMax
  BY DEF Sock!NewFds
<1>4. closes => o \notin sock_shared /\ sock_init_flag[o]
  BY DEF SockInv
<1>5. ~closes /\ o \in sock_claim => ~sock_auto_close[o]
  BY SockClaims DEF SockInv
<1> HIDE DEF closes
<1>6. /\ sock_claim' = (sock_claim \ {o}) \cup (IF {} = {} THEN {} ELSE {o}) /\ sock_open' \subseteq 1..FdMax
      /\ sock_open' = sock_lost' \cup {} \cup {sock_fd[p] : p \in sock_claim \ {o}}
  <2>1. {} \in SUBSET (1..FdMax)
    OBVIOUS
  <2>2. SockLeft(o, {})
    BY <1>1, <1>2, <1>4, <1>5, <2>1, SockReplaced
  <2> QED BY <2>2 DEF SockLeft
<1>7. /\ sock_init_flag' = [sock_init_flag EXCEPT ![o] = FALSE] /\ sock_auto_close' = [sock_auto_close EXCEPT ![o] = FALSE]
      /\ sock_shared' = sock_shared \ {o} /\ UNCHANGED <<sock_alive, auto_close_flag_>>
  BY DEF Sock!BindFails
<1>8. \A p \in sock_shared' : ~sock_auto_close'[p]
  BY <1>7 DEF SockInv, Sock!TypeOK
<1>9. /\ auto_close_flag_' \in BOOLEAN /\ sock_alive' \subseteq Sock!Objects /\ SockServers \cup SockClients \subseteq sock_alive'
      /\ sock_shared' \subseteq Sock!Objects /\ sock_shared \ {o} \subseteq sock_shared' /\ sock_alive' \cup {o} = sock_alive \cup {o}
  BY <1>7 DEF SockInv, Sock!TypeOK
<1>10. /\ sock_claim' = (sock_claim \ {o}) \cup {} /\ {} \in SUBSET {o} /\ {} \subseteq sock_alive' /\ FALSE \in BOOLEAN
       /\ sock_open' = sock_lost' \cup {sock_fd[p] : p \in sock_claim \ {o}} \cup (IF {} = {} THEN {} ELSE {d})
  BY <1>6
<1>11. SockTurns(o, d, FALSE, FALSE, {})
  BY <1>1, <1>2, <1>3, <1>6, <1>7, <1>8, <1>9, <1>10 DEF SockTurns
<1> QED BY <1>1, <1>2, <1>3, <1>6, <1>7, <1>8, <1>9, <1>10, <1>11, SockNow

LEMMA SockAutoClose ==
  ASSUME SockInv, NEW o \in SockClients, NEW flag \in BOOLEAN, Sock!SetAutoClose(o, flag)
  PROVE  SockInv'
<1> DEFINE has == sock_claim \cap {o}
<1>1. o \in sock_alive /\ o \in Sock!Objects /\ o \notin SockOthers /\ has \in SUBSET {o}
  BY SockConstants DEF SockInv, Sock!Objects
<1>2. /\ flag => o \notin sock_shared
      /\ auto_close_flag_' = flag /\ sock_auto_close' = [sock_auto_close EXCEPT ![o] = flag]
      /\ UNCHANGED <<sock_alive, sock_fd, sock_init_flag, sock_open, sock_claim, sock_shared, sock_lost>>
  BY DEF Sock!SetAutoClose
<1>3. /\ sock_fd' = [sock_fd EXCEPT ![o] = sock_fd[o]] /\ sock_init_flag' = [sock_init_flag EXCEPT ![o] = sock_init_flag[o]]
      /\ sock_fd[o] \in 0..FdMax /\ sock_init_flag[o] \in BOOLEAN
  BY <1>1, <1>2 DEF SockInv, Sock!TypeOK
<1>4. sock_claim' = (sock_claim \ {o}) \cup has /\ has \subseteq sock_alive'
  BY <1>1, <1>2
<1>5. sock_open' = sock_lost' \cup {sock_fd[p] : p \in sock_claim \ {o}} \cup (IF has = {} THEN {} ELSE {sock_fd[o]})
  BY <1>2 DEF SockInv, Sock!OwnDescriptors
<1>6. \A p \in sock_shared' : ~sock_auto_close'[p]
  BY <1>2 DEF SockInv, Sock!TypeOK
<1>7. o \in sock_alive' /\ o \notin sock_shared' /\ sock_init_flag[o] => has = {o}
  BY <1>1, <1>2 DEF SockInv, Sock!OwnDescriptors, Sock!Holders
<1>8. has # {} /\ o \notin sock_shared' => sock_init_flag[o]
  BY <1>2 DEF SockInv
<1>9. has # {} => \A p \in sock_claim \ {o} : sock_fd[p] = sock_fd[o] => p \in sock_shared' /\ o \in sock_shared'
  BY <1>2, SockClaims
<1>10. /\ auto_close_flag_' \in BOOLEAN /\ sock_alive' \subseteq Sock!Objects /\ SockServers \cup SockClients \subseteq sock_alive'
       /\ sock_shared' \subseteq Sock!Objects /\ sock_shared \ {o} \subseteq sock_shared' /\ sock_alive' \cup {o} = sock_alive \cup {o}
       /\ sock_open' \subseteq 1..FdMax
  BY <1>2 DEF SockInv, Sock!TypeOK
<1> HIDE DEF has
<1>11. SockTurns(o, sock_fd[o], sock_init_flag[o], flag, has)
  BY <1>1, <1>2, <1>3, <1>4, <1>5, <1>6, <1>7, <1>8, <1>9, <1>10 DEF SockTurns
<1> QED BY <1>1, <1>2, <1>3, <1>4, <1>5, <1>6, <1>7, <1>8, <1>9, <1>10, <1>11, SockNow

LEMMA SockClose ==
  ASSUME SockInv, NEW o \in Sock!Objects, Sock!Close(o)
  PROVE  SockInv'
<1>1. /\ o \in sock_claim /\ sock_open' = (sock_open \ {sock_fd[o]}) \cup {} /\ sock_lost' = (sock_lost \ {sock_fd[o]}) \ {}
      /\ sock_claim' = ((sock_claim \ Sock!Holders(sock_fd[o])) \ {o}) \cup {}
      /\ sock_init_flag' = [sock_init_flag EXCEPT ![o] = FALSE]
      /\ UNCHANGED <<sock_alive, sock_fd, sock_auto_close, auto_close_flag_, sock_shared>>
  BY DEF Sock!Close, Sock!Replace
<1>2. /\ sock_fd \in [Sock!Objects -> 0..FdMax] /\ sock_init_flag \in [Sock!Objects -> BOOLEAN]
      /\ sock_claim \subseteq sock_alive /\ sock_alive \subseteq Sock!Objects
  BY DEF SockInv, Sock!TypeOK
<1>3. sock_init_flag' \in [Sock!Objects -> BOOLEAN] /\ ~sock_init_flag'[o] /\ \A p \in Sock!Objects \ {o} : sock_init_flag'[p] = sock_init_flag[p]
  BY <1>1, <1>2, Zenon
<1>4. sock_claim' = {p \in sock_claim : sock_fd[p] # sock_fd[o]}
  BY <1>1 DEF Sock!Holders
<1>5. sock_open' = sock_lost' \cup {sock_fd'[p] : p \in sock_claim'}
  <2>1. sock_open = sock_lost \cup {sock_fd[p] : p \in sock_claim}
    BY DEF SockInv, Sock!OwnDescriptors
  <2> QED BY <1>1, <1>4, <2>1
<1>6. Sock!TypeOK'
  <2>1. sock_open' \subseteq 1..FdMax /\ sock_lost' \subseteq sock_open' /\ sock_claim' \subseteq sock_alive'
    BY <1>1, <1>2, <1>4 DEF SockInv, Sock!TypeOK
  <2> QED BY <1>1, <1>3, <2>1 DEF SockInv, Sock!TypeOK
<1>7. ASSUME NEW p \in sock_alive' \ sock_shared', sock_init_flag'[p]
      PROVE  sock_fd'[p] \in sock_open' /\ Sock!Holders(sock_fd[p])' = {p}
  <2>1. p # o /\ p \in sock_alive \ sock_shared /\ sock_init_flag[p] /\ p \in Sock!Objects
    BY <1>1, <1>2, <1>3, <1>7
  <2>2. sock_fd[p] \in sock_open /\ Sock!Holders(sock_fd[p]) = {p}
    BY <2>1 DEF SockInv, Sock!OwnDescriptors
  <2>3. sock_fd[p] # sock_fd[o]
    BY <1>1, <2>1, <2>2 DEF Sock!Holders
  <2> QED BY <1>1, <1>4, <2>2, <2>3 DEF Sock!Holders
<1>8. Sock!OwnDescriptors'
  BY <1>5, <1>7 DEF Sock!OwnDescriptors
<1>9. \A p \in sock_claim' \ sock_shared' : sock_init_flag'[p]
  BY <1>1, <1>2, <1>3, <1>4 DEF SockInv
<1>10. \A p \in SockOthers \cap sock_alive' : sock_auto_close'[p] => sock_init_flag'[p]
  <2>1. ~sock_auto_close[o]
    BY DEF Sock!Close
  <2> QED BY <1>1, <1>2, <1>3, <2>1 DEF SockInv
<1> QED BY <1>1, <1>6, <1>8, <1>9, <1>10 DEF SockInv

LEMMA SockNew ==
  ASSUME SockInv, NEW o \in Sock!Objects, Sock!New(o)
  PROVE  SockInv'
<1>1. /\ o \in SockOthers \ sock_alive /\ sock_alive' = sock_alive \cup {o}
      /\ sock_fd' = [sock_fd EXCEPT ![o] = 0] /\ sock_init_flag' = [sock_init_flag EXCEPT ![o] = FALSE]
      /\ sock_auto_close' = [sock_auto_close EXCEPT ![o] = FALSE]
      /\ UNCHANGED <<auto_close_flag_, sock_open, sock_claim, sock_shared, sock_lost>>
  BY DEF Sock!New
<1>2. /\ sock_claim' = (sock_claim \ {o}) \cup {} /\ {} \in SUBSET {o} /\ {} \subseteq sock_alive' /\ FALSE \in BOOLEAN
      /\ sock_open' = sock_lost' \cup {sock_fd[p] : p \in sock_claim \ {o}} \cup (IF {} = {} THEN {} ELSE {0})
  BY <1>1 DEF SockInv, Sock!TypeOK, Sock!OwnDescriptors
<1>3. /\ auto_close_flag_' \in BOOLEAN /\ sock_alive' \subseteq Sock!Objects /\ SockServers \cup SockClients \subseteq sock_alive'
      /\ sock_shared' \subseteq Sock!Objects /\ sock_shared \ {o} \subseteq sock_shared' /\ sock_alive' \cup {o} = sock_alive \cup {o}
      /\ sock_open' \subseteq 1..FdMax /\ 0 \in 0..FdMax
  BY <1>1, SockConstants DEF SockInv, Sock!TypeOK
<1>4. \A p \in sock_shared' : ~sock_auto_close'[p]
  BY <1>1 DEF SockInv, Sock!TypeOK
<1>5. SockTurns(o, 0, FALSE, FALSE, {})
  BY <1>1, <1>2, <1>3, <1>4 DEF SockTurns
<1> QED BY <1>1, <1>2, <1>3, <1>4, <1>5, SockNow

LEMMA SockCopy ==
  ASSUME SockInv, NEW o \in Sock!Objects, NEW from \in Sock!Objects, Sock!Copy(o, from)
  PROVE  SockInv'
<1> DEFINE has == IF from \in sock_claim THEN {o} ELSE {}
<1>1. PICK any \in BOOLEAN : sock_init_flag' = [sock_init_flag EXCEPT ![o] = any]
  BY DEF Sock!Copy
<1>2. /\ o \in SockOthers \ sock_alive /\ from \in sock_alive /\ ~sock_auto_close[from] /\ sock_alive' = sock_alive \cup {o}
      /\ sock_fd' = [sock_fd EXCEPT ![o] = sock_fd[from]] /\ sock_auto_close' = [sock_auto_close EXCEPT ![o] = sock_auto_close[from]]
      /\ sock_claim' = (IF from \in sock_claim THEN sock_claim \cup {o} ELSE sock_claim) /\ sock_shared' = sock_shared \cup {o, from}
      /\ UNCHANGED <<auto_close_flag_, sock_open, sock_lost>>
  BY DEF Sock!Copy
<1>3. o \notin sock_claim /\ sock_fd[from] \in 0..FdMax /\ sock_auto_close[from] \in BOOLEAN /\ has \in SUBSET {o} /\ has \subseteq sock_alive'
  BY <1>2 DEF SockInv, Sock!TypeOK
<1>4. sock_claim' = (sock_claim \ {o}) \cup has
  BY <1>2, <1>3
<1>5. sock_open' = sock_lost' \cup {sock_fd[p] : p \in sock_claim \ {o}} \cup (IF has = {} THEN {} ELSE {sock_fd[from]})
  BY <1>2, <1>3 DEF SockInv, Sock!OwnDescriptors
<1>6. /\ auto_close_flag_' \in BOOLEAN /\ sock_alive' \subseteq Sock!Objects /\ SockServers \cup SockClients \subseteq sock_alive'
      /\ sock_shared' \subseteq Sock!Objects /\ sock_shared \ {o} \subseteq sock_shared' /\ sock_alive' \cup {o} = sock_alive \cup {o}
      /\ sock_open' \subseteq 1..FdMax
  BY <1>2 DEF SockInv, Sock!TypeOK
<1>7. \A p \in sock_shared' : ~sock_auto_close'[p]
  BY <1>2 DEF SockInv, Sock!TypeOK
<1>8. has # {} => \A p \in sock_claim \ {o} : sock_fd[p] = sock_fd[from] => p \in sock_shared' /\ o \in sock_shared'
  BY <1>2, SockClaims
<1>9. o \in sock_shared' /\ ~sock_auto_close[from]
  BY <1>2
<1> HIDE DEF has
<1>10. SockTurns(o, sock_fd[from], any, sock_auto_close[from], has)
  BY <1>1, <1>2, <1>3, <1>4, <1>5, <1>6, <1>7, <1>8, <1>9 DEF SockTurns
<1> QED BY <1>1, <1>2, <1>3, <1>4, <1>5, <1>6, <1>7, <1>8, <1>9, <1>10, SockNow

LEMMA SockAssign ==
  ASSUME SockInv, NEW o \in Sock!Objects, NEW from \in Sock!Objects, Sock!Assign(o, from)
  PROVE  SockInv'
<1> DEFINE drop == sock_fd[o] > 0 /\ sock_auto_close[o]
           closes == drop /\ sock_init_flag[o]
           new == IF from \in sock_claim THEN {sock_fd[from]} ELSE {}
           has == IF from \in sock_claim THEN {o} ELSE {}
           i == sock_init_flag[o] /\ ~drop
<1>1. /\ {o, from} \subseteq sock_alive /\ o # from /\ ~sock_auto_close[from] /\ sock_fd[o] # sock_fd[from]
      /\ Sock!Replace(o, closes, new) /\ sock_init_flag' = [sock_init_flag EXCEPT ![o] = i]
      /\ sock_fd' = [sock_fd EXCEPT ![o] = sock_fd[from]] /\ sock_auto_close' = [sock_auto_close EXCEPT ![o] = sock_auto_close[from]]
      /\ sock_shared' = sock_shared \cup {o, from} /\ UNCHANGED <<sock_alive, auto_close_flag_>>
  BY DEF Sock!Assign
<1>2. closes => o \notin sock_shared /\ sock_init_flag[o]
  BY DEF SockInv
<1>3. ~closes /\ o \in sock_claim => ~sock_auto_close[o]
  BY SockClaims DEF SockInv
<1>4. /\ new \in SUBSET (1..FdMax) /\ (new = {} \/ \E d : new = {d}) /\ (o \in sock_claim => sock_fd[o] \notin new)
      /\ closes \in BOOLEAN /\ i \in BOOLEAN
  BY <1>1, SockClaims DEF SockInv, Sock!TypeOK
<1>5. (new = {} <=> has = {}) /\ (IF new = {} THEN {} ELSE {o}) = has /\ has \in SUBSET {o} /\ has \subseteq sock_alive'
      /\ (has # {} => new = {sock_fd[from]})
  BY <1>1
<1>6. has # {} => \A p \in sock_claim \ {o} : sock_fd[p] = sock_fd[from] => p \in sock_shared' /\ o \in sock_shared'
  BY <1>1, SockClaims
<1> HIDE DEF drop, closes, new, has, i
<1>7. SockLeft(o, new)
  BY <1>1, <1>2, <1>3, <1>4, SockReplaced
<1>8. /\ sock_claim' = (sock_claim \ {o}) \cup has
      /\ sock_open' = sock_lost' \cup {sock_fd[p] : p \in sock_claim \ {o}} \cup (IF has = {} THEN {} ELSE {sock_fd[from]})
  BY <1>5, <1>7 DEF SockLeft
<1>9. /\ auto_close_flag_' \in BOOLEAN /\ sock_alive' \subseteq Sock!Objects /\ SockServers \cup SockClients \subseteq sock_alive'
      /\ sock_shared' \subseteq Sock!Objects /\ sock_shared \ {o} \subseteq sock_shared' /\ sock_alive' \cup {o} = sock_alive \cup {o}
      /\ sock_fd[from] \in 0..FdMax /\ sock_auto_close[from] \in BOOLEAN
  BY <1>1 DEF SockInv, Sock!TypeOK
<1>10. \A p \in sock_shared' : ~sock_auto_close'[p]
  BY <1>1 DEF SockInv, Sock!TypeOK
<1>11. o \in sock_shared'
  BY <1>1
<1>12. SockTurns(o, sock_fd[from], i, sock_auto_close[from], has)
  BY <1>1, <1>4, <1>5, <1>6, <1>7, <1>8, <1>9, <1>10, <1>11 DEF SockTurns, SockLeft
<1> QED BY <1>1, <1>4, <1>5, <1>6, <1>7, <1>8, <1>9, <1>10, <1>11, <1>12, SockNow

LEMMA SockDestroy ==
  ASSUME SockInv, NEW o \in Sock!Objects, Sock!Destroy(o)
  PROVE  SockInv'
<1>1. /\ o \in SockOthers \cap sock_alive /\ sock_alive' = sock_alive \ {o} /\ Sock!Replace(o, sock_auto_close[o], {})
      /\ sock_shared' = sock_shared \ {o} /\ sock_init_flag' = [sock_init_flag EXCEPT ![o] = FALSE]
      /\ UNCHANGED <<sock_fd, sock_auto_close, auto_close_flag_>>
  BY DEF Sock!Destroy
<1>2. sock_auto_close[o] => o \notin sock_shared /\ sock_init_flag[o]
  BY <1>1 DEF SockInv
<1>3. /\ sock_claim' = (sock_claim \ {o}) \cup (IF {} = {} THEN {} ELSE {o}) /\ sock_open' \subseteq 1..FdMax
      /\ sock_open' = sock_lost' \cup {} \cup {sock_fd[p] : p \in sock_claim \ {o}}
  <2>1. {} \in SUBSET (1..FdMax) /\ sock_auto_close[o] \in BOOLEAN
    BY DEF SockInv, Sock!TypeOK
  <2>2. SockLeft(o, {})
    BY <1>1, <1>2, <2>1, SockReplaced
  <2> QED BY <2>2 DEF SockLeft
<1>4. /\ sock_fd' = [sock_fd EXCEPT ![o] = sock_fd[o]] /\ sock_auto_close' = [sock_auto_close EXCEPT ![o] = sock_auto_close[o]]
      /\ sock_fd[o] \in 0..FdMax /\ sock_auto_close[o] \in BOOLEAN /\ FALSE \in BOOLEAN
  BY <1>1 DEF SockInv, Sock!TypeOK
<1>5. /\ sock_claim' = (sock_claim \ {o}) \cup {} /\ {} \in SUBSET {o} /\ {} \subseteq sock_alive' /\ o \notin sock_alive'
      /\ sock_open' = sock_lost' \cup {sock_fd[p] : p \in sock_claim \ {o}} \cup (IF {} = {} THEN {} ELSE {sock_fd[o]})
  BY <1>1, <1>3
<1>6. /\ auto_close_flag_' \in BOOLEAN /\ sock_alive' \subseteq Sock!Objects /\ SockServers \cup SockClients \subseteq sock_alive'
      /\ sock_shared' \subseteq Sock!Objects /\ sock_shared \ {o} \subseteq sock_shared' /\ sock_alive' \cup {o} = sock_alive \cup {o}
  BY <1>1, SockConstants DEF SockInv, Sock!TypeOK
<1>7. \A p \in sock_shared' : ~sock_auto_close'[p]
  BY <1>1 DEF SockInv, Sock!TypeOK
<1>8. SockTurns(o, sock_fd[o], FALSE, sock_auto_close[o], {})
  BY <1>1, <1>3, <1>4, <1>5, <1>6, <1>7 DEF SockTurns
<1> QED BY <1>4, <1>8, SockNow

LEMMA SockStep == SockInv /\ Sock!Next => SockInv'
<1> SUFFICES ASSUME SockInv, Sock!Next PROVE SockInv'
  OBVIOUS
<1>1. CASE Sock!ServerSocketFails
  BY <1>1, SockLeak DEF Sock!ServerSocketFails
<1>2. ASSUME NEW o \in SockServers, Sock!Bind(o) \/ Sock!BindFails(o) \/ Sock!AcceptFails(o) \/ \E x \in SockOthers : Sock!Accept(x, o)
      PROVE  SockInv'
  <2>1. CASE Sock!Bind(o)
    <3>1. o \in sock_alive
      BY DEF SockInv
    <3> QED BY <2>1, <3>1, SockSet DEF Sock!Bind
  <2>2. CASE Sock!AcceptFails(o)
    BY <2>2, SockLeak DEF Sock!AcceptFails
  <2>3. CASE \E x \in SockOthers : Sock!Accept(x, o)
    BY <2>3, SockSet DEF Sock!Accept
  <2> QED BY <1>2, <2>1, <2>2, <2>3, SockBindFails
<1>3. ASSUME NEW o \in SockClients, Sock!Connect(o) \/ \E flag \in BOOLEAN : Sock!SetAutoClose(o, flag)
      PROVE  SockInv'
  <2>1. o \in sock_alive /\ auto_close_flag_ \in BOOLEAN
    BY DEF SockInv, Sock!TypeOK
  <2>2. CASE Sock!Connect(o)
    BY <2>1, <2>2, SockSet DEF Sock!Connect
  <2> QED BY <1>3, <2>2, SockAutoClose
<1>4. ASSUME NEW o \in Sock!Objects, NEW from \in Sock!Objects, Sock!Dup(from, o)
      PROVE  SockInv'
  <2>1. o \in sock_alive /\ sock_auto_close[from] \in BOOLEAN
    BY <1>4 DEF Sock!Dup, SockInv, Sock!TypeOK
  <2>2. \E d \in Sock!NewFds : Sock!SetFD(o, d, sock_auto_close[from]) /\ UNCHANGED <<sock_alive, auto_close_flag_>>
    BY <1>4 DEF Sock!Dup
  <2> QED BY <2>1, <2>2, SockSet
<1> QED BY <1>1, <1>2, <1>3, <1>4, SockClose, SockNew, SockDestroy, SockCopy, SockAssign DEF Sock!Next

LEMMA SockIdle == SockInv /\ UNCHANGED sock_vars => SockInv'
BY DEF SockInv, Sock!TypeOK, Sock!OwnDescriptors, Sock!Holders, sock_vars

LEMMA SockMeans == SockInv => Sock!TypeOK /\ Sock!OwnDescriptors
BY DEF SockInv


-----------------------------------------------------------------------------
(***************************************************************************)
(* The other descriptors: the same of timers, pairs and streams.           *)
(***************************************************************************)
LEMMA FdsConstants == FdMax \in Nat
BY PartsAssumption

\* A copy, or an object that was copied, does not close by itself as long as
\* it has a claim; an event object that does knows that it has a descriptor.
FdsInv ==
  /\ Desc!TypeOK /\ Desc!FdsOwned
  /\ fds_auto_close \in [Pair -> BOOLEAN] /\ fds_init_flag \in [Pair -> BOOLEAN]
  /\ 0 \notin mine
  /\ \A o \in fds_claim \cap fds_shared : ~fds_auto_close[o]
  /\ \A o \in fds_claim : kind[o] = "EventFD" /\ fds_auto_close[o] => fds_init_flag[o]

LEMMA FdsStart == Desc!Init => FdsInv
<1> SUFFICES ASSUME Desc!Init PROVE FdsInv
  OBVIOUS
<1>1. fds_fd \in [Pair -> Desc!None..FdMax] /\ ffd_ \in [Pair -> Desc!None..FdMax] /\ {0} \subseteq 0..FdMax
  BY FdsConstants DEF Desc!Init, Desc!None
<1>2. fds_auto_close \in [Pair -> BOOLEAN] /\ fds_init_flag \in [Pair -> BOOLEAN]
  BY DEF Desc!Init
<1>3. Desc!TypeOK
  BY <1>1 DEF Desc!Init, Desc!TypeOK
<1> QED BY <1>2, <1>3 DEF Desc!Init, FdsInv, Desc!FdsOwned

\* Two objects claim one descriptor only if both are copies or were copied.
LEMMA FdsClaims ==
  ASSUME FdsInv
  PROVE  /\ \A p, q \in fds_claim : fds_fd[p] = fds_fd[q] /\ p # q => p \in fds_shared /\ q \in fds_shared
         /\ \A p \in fds_claim : fds_fd[p] \in fds_open /\ fds_fd[p] > 0 /\ fds_fd[p] \in 0..FdMax /\ fds_fd[p] \notin mine
                             /\ p \in fds_alive /\ p \in Pair
<1>1. \A p \in fds_claim \ fds_shared : Desc!Holders(fds_fd[p]) = {p}
  BY DEF FdsInv, Desc!FdsOwned
<1>2. \A p \in fds_claim : fds_fd[p] \in fds_open /\ fds_fd[p] \notin mine \cup {0} /\ p \in fds_alive /\ p \in Pair /\ fds_open \subseteq 0..FdMax
  BY DEF FdsInv, Desc!TypeOK, Desc!FdsOwned
<1> QED BY <1>1, <1>2, FdsConstants DEF Desc!Holders

\* left has the objects that still claim what they did after o took d.
FdsLeft(o, d, rest) ==
  /\ fds_claim' = rest \cup (IF d = Desc!None THEN {} ELSE {o}) /\ rest \subseteq fds_claim \ {o}
  /\ fds_open' \subseteq 0..FdMax /\ fds_armed' \subseteq fds_open' /\ 0 \notin mine' /\ d \notin mine'
  /\ \A p \in rest : fds_fd[p] \notin mine'
  /\ fds_open' = {0} \cup mine' \cup {fds_fd[p] : p \in rest} \cup (IF d = Desc!None THEN {} ELSE {d})

\* Who still has a claim when o gives its number up, and what of open is whose.
LEMMA FdsReplaced ==
  ASSUME FdsInv, NEW o \in Pair, NEW closes \in BOOLEAN, NEW d \in Desc!None..FdMax, Desc!Replace(o, closes, d),
         closes => o \in fds_claim, ~closes /\ o \in fds_claim => ~fds_auto_close[o], d # 0,
         NEW rest, rest = fds_claim \ (IF closes THEN Desc!Holders(fds_fd[o]) ELSE {o})
  PROVE  FdsLeft(o, d, rest)
<1> USE DEF FdsLeft
<1>1. fds_claim' = rest \cup (IF d = Desc!None THEN {} ELSE {o}) /\ rest \subseteq fds_claim \ {o}
  BY DEF Desc!Replace, Desc!Holders
<1>2. fds_open = {0} \cup mine \cup {fds_fd[p] : p \in fds_claim} /\ fds_open \subseteq 0..FdMax /\ fds_armed \subseteq fds_open /\ mine \subseteq fds_open
  BY DEF FdsInv, Desc!FdsOwned, Desc!TypeOK
<1>3. {d} \ {Desc!None} = (IF d = Desc!None THEN {} ELSE {d}) /\ {d} \ {Desc!None} \subseteq 0..FdMax
  BY FdsConstants DEF Desc!None
<1>4. fds_open' \subseteq 0..FdMax /\ fds_armed' \subseteq fds_open'
  BY <1>2, <1>3 DEF Desc!Replace
<1> DEFINE got == {d} \ {Desc!None}
<1>7. d \notin got => d \notin mine /\ \A p \in fds_claim : d # fds_fd[p]
  <2>1. Desc!None \notin fds_open
    BY <1>2, FdsConstants DEF Desc!None
  <2> QED BY <1>2, <2>1
<1>5. CASE closes
  <2>1. rest = {p \in fds_claim : fds_fd[p] # fds_fd[o]} /\ o \in fds_claim
    BY <1>5 DEF Desc!Holders
  <2>2. fds_open' = (fds_open \ {fds_fd[o]}) \cup ({d} \ {Desc!None}) /\ mine' = mine \ {d}
    BY <1>5 DEF Desc!Replace
  <2>3. \A p \in fds_claim : fds_fd[p] \notin mine /\ fds_fd[p] # 0
    BY FdsClaims
  <2>4. fds_open' = {0} \cup mine' \cup {fds_fd[p] : p \in rest} \cup (IF d = Desc!None THEN {} ELSE {d})
    <3>1. fds_open \ {fds_fd[o]} = {0} \cup mine \cup {fds_fd[p] : p \in rest}
      BY <1>2, <2>1, <2>3
    <3>2. fds_open' = {0} \cup mine \cup {fds_fd[p] : p \in rest} \cup got
      BY <2>2, <3>1
    <3>3. mine \cup got = mine' \cup got
      BY <1>7, <2>2
    <3> QED BY <1>3, <3>2, <3>3
  <2> QED BY <1>1, <1>4, <2>1, <2>2, <2>3, <2>4 DEF FdsInv
<1>6. CASE ~closes
  <2>1. fds_open' = fds_open \cup ({d} \ {Desc!None}) /\ rest = fds_claim \ {o}
    BY <1>6 DEF Desc!Replace
  <2>2. CASE o \in fds_claim /\ Desc!Holders(fds_fd[o]) = {o}
    <3>1. mine' = (mine \cup {fds_fd[o]}) \ {d}
      BY <1>6, <2>2 DEF Desc!Replace
    <3>2. \A p \in rest : fds_fd[p] \notin mine /\ fds_fd[p] # fds_fd[o] /\ fds_fd[o] # 0
      BY <2>1, <2>2, FdsClaims DEF Desc!Holders
    <3>3. fds_fd[o] # 0
      BY <2>2, FdsClaims
    <3>4. fds_open = {0} \cup (mine \cup {fds_fd[o]}) \cup {fds_fd[p] : p \in rest}
      BY <1>2, <2>1, <2>2
    <3>5. (mine \cup {fds_fd[o]}) \cup got = mine' \cup got
      BY <1>7, <2>2, <3>1
    <3>6. fds_open' = {0} \cup mine' \cup {fds_fd[p] : p \in rest} \cup got
      BY <2>1, <3>4, <3>5
    <3>7. 0 \notin mine' /\ d \notin mine' /\ \A p \in rest : fds_fd[p] \notin mine'
      BY <3>1, <3>2, <3>3 DEF FdsInv
    <3> QED BY <1>1, <1>3, <1>4, <3>6, <3>7
  <2>3. CASE ~(o \in fds_claim /\ Desc!Holders(fds_fd[o]) = {o})
    <3>1. mine' = mine \ {d}
      BY <1>6, <2>3 DEF Desc!Replace, Desc!Holders
    <3>2. o \in fds_claim => \E p \in rest : fds_fd[p] = fds_fd[o]
      BY <2>1, <2>3 DEF Desc!Holders
    <3>3. \A p \in rest : fds_fd[p] \notin mine
      BY <2>1, FdsClaims
    <3>4. fds_open = {0} \cup mine \cup {fds_fd[p] : p \in rest}
      BY <1>2, <2>1, <3>2
    <3>5. mine \cup got = mine' \cup got
      BY <1>7, <3>1
    <3>6. fds_open' = {0} \cup mine' \cup {fds_fd[p] : p \in rest} \cup got
      BY <2>1, <3>4, <3>5
    <3>7. 0 \notin mine' /\ d \notin mine' /\ \A p \in rest : fds_fd[p] \notin mine'
      BY <3>1, <3>3 DEF FdsInv
    <3> QED BY <1>1, <1>3, <1>4, <3>6, <3>7
  <2> QED BY <2>2, <2>3
<1> QED BY <1>5, <1>6

\* What becomes of the one object o whose number, stream or flags change: fl
\* and au are its flags then, d and f its numbers, left has the other objects
\* that claim one, and has is {o} when it claims d.
FdsTurns(o, d, f, fl, au, rest, has) ==
  /\ fds_fd' = [fds_fd EXCEPT ![o] = d] /\ ffd_' = [ffd_ EXCEPT ![o] = f] /\ kind' = kind
  /\ fds_init_flag' = [fds_init_flag EXCEPT ![o] = fl] /\ fds_auto_close' = [fds_auto_close EXCEPT ![o] = au]
  /\ fds_claim' = rest \cup has /\ rest \subseteq fds_claim \ {o} /\ has \subseteq fds_alive' \cap {o}
  /\ fds_alive' \subseteq Pair /\ fds_alive \ {o} \subseteq fds_alive'
  /\ fds_open' \subseteq 0..FdMax /\ fds_armed' \subseteq fds_open'
  /\ fds_open' = {0} \cup mine' \cup {fds_fd[p] : p \in rest} \cup (IF has = {} THEN {} ELSE {d})
  /\ 0 \notin mine' /\ \A p \in rest : fds_fd[p] \notin mine'
  /\ fds_shared \ {o} \subseteq fds_shared' /\ fds_shared' \subseteq Pair
  /\ \A p \in rest \cap fds_shared' : ~fds_auto_close[p]
  /\ has # {} =>
       /\ d \notin mine' \cup {0}
       /\ kind[o] = "file::FD" => f = d
       /\ o \in fds_shared' => ~au
       /\ kind[o] = "EventFD" /\ au => fl
       /\ \A p \in rest : fds_fd[p] = d => p \in fds_shared' /\ o \in fds_shared'

LEMMA FdsNow ==
  ASSUME FdsInv, NEW o \in Pair, NEW d \in Desc!None..FdMax, NEW f \in Desc!None..FdMax, NEW fl \in BOOLEAN, NEW au \in BOOLEAN,
         NEW rest, NEW has, FdsTurns(o, d, f, fl, au, rest, has)
  PROVE  FdsInv'
<1> USE DEF FdsTurns
<1>1. /\ fds_fd \in [Pair -> Desc!None..FdMax] /\ ffd_ \in [Pair -> Desc!None..FdMax] /\ kind \in [Pair -> Desc!Kinds]
      /\ fds_init_flag \in [Pair -> BOOLEAN] /\ fds_auto_close \in [Pair -> BOOLEAN]
      /\ fds_claim \subseteq fds_alive /\ fds_alive \subseteq Pair
  BY DEF FdsInv, Desc!TypeOK
<1>2. /\ fds_fd' \in [Pair -> Desc!None..FdMax] /\ fds_fd'[o] = d /\ \A p \in Pair \ {o} : fds_fd'[p] = fds_fd[p]
      /\ ffd_' \in [Pair -> Desc!None..FdMax] /\ ffd_'[o] = f /\ \A p \in Pair \ {o} : ffd_'[p] = ffd_[p]
  BY <1>1
<1>3. /\ fds_init_flag' \in [Pair -> BOOLEAN] /\ fds_auto_close' \in [Pair -> BOOLEAN]
      /\ fds_init_flag'[o] = fl /\ fds_auto_close'[o] = au
      /\ \A p \in Pair \ {o} : fds_init_flag'[p] = fds_init_flag[p] /\ fds_auto_close'[p] = fds_auto_close[p]
  BY <1>1, Zenon
<1>4. fds_claim' \subseteq fds_alive'
  BY <1>1
<1>5. fds_open' = {0} \cup mine' \cup {fds_fd'[p] : p \in fds_claim'}
  <2>1. {fds_fd'[p] : p \in fds_claim'} = {fds_fd[p] : p \in rest} \cup (IF has = {} THEN {} ELSE {d})
    BY <1>1, <1>2
  <2> QED BY <2>1
<1>6. Desc!TypeOK'
  BY <1>1, <1>2, <1>4, <1>5 DEF Desc!TypeOK
<1>7. ASSUME NEW p \in fds_claim'
      PROVE  /\ fds_fd'[p] \notin mine' \cup {0}
             /\ p \notin fds_shared' => Desc!Holders(fds_fd[p])' = {p}
             /\ kind'[p] = "file::FD" => ffd_'[p] = fds_fd'[p]
  <2>1. CASE p = o
    <3>1. has = {o}
      BY <1>7, <2>1
    <3>2. \A q \in fds_claim' : p \notin fds_shared' /\ fds_fd'[q] = d => q = o
      BY <1>1, <1>2, <3>1, <1>7, <2>1
    <3> QED BY <1>2, <2>1, <3>1, <3>2 DEF Desc!Holders
  <2>2. CASE p # o
    <3>1. p \in fds_claim /\ p \in rest /\ fds_fd'[p] = fds_fd[p] /\ ffd_'[p] = ffd_[p]
      BY <1>1, <1>2, <1>7, <2>2
    <3>2. fds_fd[p] # 0 /\ fds_fd[p] \notin mine' /\ (kind[p] = "file::FD" => ffd_[p] = fds_fd[p])
      BY <3>1 DEF FdsInv, Desc!FdsOwned
    <3>3. p \notin fds_shared' => \A q \in fds_claim : fds_fd[q] = fds_fd[p] => q = p
      BY <3>1, <2>2, FdsClaims
    <3>4. p \notin fds_shared' => \A q \in fds_claim' : fds_fd'[q] = fds_fd[p] => q = p
      BY <1>1, <1>2, <1>7, <2>2, <3>1, <3>3
    <3> QED BY <1>7, <3>1, <3>2, <3>4 DEF Desc!Holders
  <2> QED BY <2>1, <2>2
<1>8. Desc!FdsOwned'
  BY <1>5, <1>7 DEF Desc!FdsOwned
<1>9. \A p \in fds_claim' \cap fds_shared' : ~fds_auto_close'[p]
  BY <1>1, <1>3
<1>10. \A p \in fds_claim' : kind'[p] = "EventFD" /\ fds_auto_close'[p] => fds_init_flag'[p]
  BY <1>1, <1>3 DEF FdsInv
<1> QED BY <1>3, <1>6, <1>8, <1>9, <1>10 DEF FdsInv

LEMMA FdsPut ==
  ASSUME FdsInv, NEW o \in fds_alive, NEW closes \in BOOLEAN, NEW d \in 1..FdMax, NEW auto \in BOOLEAN,
         Desc!Replace(o, closes, d), Desc!Put(o, d, auto), UNCHANGED <<kind, fds_alive>>,
         closes => o \in fds_claim, ~closes /\ o \in fds_claim => ~fds_auto_close[o], \A p \in fds_claim : fds_fd[p] # d
  PROVE  FdsInv'
<1> DEFINE rest == fds_claim \ (IF closes THEN Desc!Holders(fds_fd[o]) ELSE {o})
           f == IF kind[o] = "file::FD" THEN d ELSE ffd_[o]
<1>1. o \in Pair /\ d \in Desc!None..FdMax /\ d # 0 /\ d # Desc!None /\ f \in Desc!None..FdMax /\ TRUE \in BOOLEAN
  BY FdsConstants DEF FdsInv, Desc!TypeOK, Desc!None
<1>2. /\ fds_fd' = [fds_fd EXCEPT ![o] = d] /\ ffd_' = [ffd_ EXCEPT ![o] = f]
      /\ fds_auto_close' = [fds_auto_close EXCEPT ![o] = auto] /\ fds_init_flag' = [fds_init_flag EXCEPT ![o] = TRUE]
      /\ fds_shared' = fds_shared \ {o}
  BY DEF Desc!Put, Desc!Takes
<1>3. kind[o] = "file::FD" => f = d
  OBVIOUS
<1> HIDE DEF rest, f
<1>4. /\ fds_claim' = rest \cup {o} /\ rest \subseteq fds_claim \ {o}
      /\ fds_open' \subseteq 0..FdMax /\ fds_armed' \subseteq fds_open' /\ 0 \notin mine' /\ d \notin mine'
      /\ \A p \in rest : fds_fd[p] \notin mine'
      /\ fds_open' = {0} \cup mine' \cup {fds_fd[p] : p \in rest} \cup {d}
  <2>1. rest = fds_claim \ (IF closes THEN Desc!Holders(fds_fd[o]) ELSE {o})
    BY DEF rest
  <2>2. FdsLeft(o, d, rest)
    BY <1>1, <2>1, FdsReplaced
  <2> QED BY <1>1, <2>2 DEF FdsLeft
<1>5. /\ fds_alive' \subseteq Pair /\ fds_alive \ {o} \subseteq fds_alive' /\ {o} \subseteq fds_alive' \cap {o} /\ kind' = kind
      /\ fds_shared \ {o} \subseteq fds_shared' /\ fds_shared' \subseteq Pair /\ o \notin fds_shared'
      /\ \A p \in rest \cap fds_shared' : ~fds_auto_close[p]
  BY <1>2, <1>4 DEF FdsInv, Desc!TypeOK
<1>6. FdsTurns(o, d, f, TRUE, auto, rest, {o})
  BY <1>1, <1>2, <1>3, <1>4, <1>5 DEF FdsTurns
<1> QED BY <1>1, <1>6, FdsNow

\* SetFD closes nothing but what the object claims, and what it does not
\* close while the object claims it is handed back to the program.
LEMMA FdsCloses ==
  ASSUME FdsInv, NEW o \in fds_alive, Desc!NotStale(o)
  PROVE  Desc!Closes(o) \in BOOLEAN /\ (Desc!Closes(o) => o \in fds_claim) /\ (~Desc!Closes(o) /\ o \in fds_claim => ~fds_auto_close[o])
<1>1. o \in fds_claim => Desc!ClosesFD(o)
  BY FdsClaims DEF Desc!ClosesFD, Desc!Valid
<1>2. o \in fds_claim /\ kind[o] = "EventFD" /\ fds_auto_close[o] => fds_init_flag[o]
  BY DEF FdsInv
<1> QED BY <1>1, <1>2 DEF Desc!Closes, Desc!ClosesFD, Desc!NotStale

LEMMA FdsSetFD ==
  ASSUME FdsInv, NEW o \in Pair, NEW d \in 1..FdMax, NEW auto \in BOOLEAN, Desc!SetFD(o, d, auto)
  PROVE  FdsInv'
<1>1. o \in fds_alive /\ d \in mine /\ Desc!Replace(o, Desc!Closes(o), d) /\ Desc!Put(o, d, auto) /\ UNCHANGED <<kind, fds_alive>> /\ Desc!NotStale(o)
  BY DEF Desc!SetFD
<1>2. \A p \in fds_claim : fds_fd[p] # d
  BY <1>1, FdsClaims
<1> QED BY <1>1, <1>2, FdsCloses, FdsPut

LEMMA FdsSetStream ==
  ASSUME FdsInv, NEW o \in Pair, NEW d \in 1..FdMax, NEW auto \in BOOLEAN, Desc!SetStream(o, d, auto)
  PROVE  FdsInv'
<1> DEFINE has == o \in fds_claim
<1>1. o \in fds_alive /\ d \in mine /\ Desc!Replace(o, has, d) /\ Desc!Put(o, d, auto) /\ UNCHANGED <<kind, fds_alive>>
  BY DEF Desc!SetStream
<1>2. \A p \in fds_claim : fds_fd[p] # d
  BY <1>1, FdsClaims
<1>3. has \in BOOLEAN /\ (has <=> o \in fds_claim)
  OBVIOUS
<1> HIDE DEF has
<1> QED BY <1>1, <1>2, <1>3, FdsPut

LEMMA FdsDup ==
  ASSUME FdsInv, NEW o \in Pair, NEW new \in Pair, NEW d \in 1..FdMax, Desc!Dup(o, new, d)
  PROVE  FdsInv'
<1>1. /\ new \in fds_alive /\ d \notin fds_open /\ Desc!Replace(new, Desc!Closes(new), d) /\ Desc!Put(new, d, fds_auto_close[o])
      /\ UNCHANGED <<kind, fds_alive>> /\ Desc!NotStale(new)
  BY DEF Desc!Dup
<1>2. (\A p \in fds_claim : fds_fd[p] # d) /\ fds_auto_close[o] \in BOOLEAN
  BY <1>1, FdsClaims DEF FdsInv
<1> QED BY <1>1, <1>2, FdsCloses, FdsPut

LEMMA FdsNew ==
  ASSUME FdsInv, NEW o \in Pair, NEW d0 \in Desc!None..FdMax, Desc!New(o, d0)
  PROVE  FdsInv'
<1> DEFINE d == IF kind[o] = "EpollFD" THEN Desc!None ELSE d0
           has == IF d = Desc!None THEN {} ELSE {o}
           f == IF kind[o] = "file::FD" THEN d ELSE ffd_[o]
<1>1. PICK any \in BOOLEAN : fds_init_flag' = [fds_init_flag EXCEPT ![o] = any]
  BY DEF Desc!New
<1>2. /\ o \notin fds_alive /\ d0 \in mine \cup {Desc!None} /\ fds_alive' = fds_alive \cup {o}
      /\ fds_fd' = [fds_fd EXCEPT ![o] = d] /\ ffd_' = [ffd_ EXCEPT ![o] = f]
      /\ fds_auto_close' = [fds_auto_close EXCEPT ![o] = FALSE] /\ fds_shared' = fds_shared \ {o}
      /\ fds_claim' = (IF d = Desc!None THEN fds_claim ELSE fds_claim \cup {o}) /\ mine' = mine \ {d}
      /\ UNCHANGED <<kind, fds_open, fds_armed>>
  BY DEF Desc!New, Desc!Takes
<1>3. o \notin fds_claim /\ d \in Desc!None..FdMax /\ f \in Desc!None..FdMax /\ d \in mine \cup {Desc!None} /\ FALSE \in BOOLEAN
  BY <1>2, FdsConstants DEF FdsInv, Desc!TypeOK, Desc!None
<1>4. kind[o] = "file::FD" => f = d
  OBVIOUS
<1>5. has \subseteq {o} /\ (has = {} <=> d = Desc!None) /\ fds_claim' = fds_claim \cup has
  BY <1>2
<1>6. fds_open' = {0} \cup mine' \cup {fds_fd[p] : p \in fds_claim} \cup (IF has = {} THEN {} ELSE {d})
  <2>1. fds_open = {0} \cup mine \cup {fds_fd[p] : p \in fds_claim} /\ Desc!None \notin mine
    BY FdsConstants DEF FdsInv, Desc!FdsOwned, Desc!TypeOK, Desc!None
  <2>2. mine = mine' \cup (IF d = Desc!None THEN {} ELSE {d})
    BY <1>2, <1>3, <2>1
  <2>3. mine = mine' \cup (IF has = {} THEN {} ELSE {d})
    BY <1>5, <2>2
  <2> HIDE DEF d, has, f
  <2> QED BY <1>2, <2>1, <2>3
<1>7. \A p \in fds_claim : fds_fd[p] \notin mine' /\ (d \in mine => fds_fd[p] # d)
  BY <1>2, FdsClaims
<1>8. has # {} => d \notin mine' \cup {0} /\ \A p \in fds_claim : fds_fd[p] # d
  BY <1>2, <1>3, <1>5, <1>7 DEF FdsInv
<1> HIDE DEF d, has, f
<1>9. /\ fds_claim \subseteq fds_claim \ {o} /\ has \subseteq fds_alive' \cap {o} /\ fds_alive' \subseteq Pair /\ fds_alive \ {o} \subseteq fds_alive'
      /\ fds_open' \subseteq 0..FdMax /\ fds_armed' \subseteq fds_open' /\ 0 \notin mine' /\ kind' = kind
      /\ fds_shared \ {o} \subseteq fds_shared' /\ fds_shared' \subseteq Pair /\ o \notin fds_shared'
      /\ \A p \in fds_claim \cap fds_shared' : ~fds_auto_close[p]
  BY <1>2, <1>3, <1>5 DEF FdsInv, Desc!TypeOK
<1>10. FdsTurns(o, d, f, any, FALSE, fds_claim, has)
  BY <1>1, <1>2, <1>4, <1>5, <1>6, <1>7, <1>8, <1>9 DEF FdsTurns
<1> QED BY <1>3, <1>10, FdsNow

LEMMA FdsMake ==
  ASSUME FdsInv, NEW o \in Pair, NEW d \in 1..FdMax, NEW auto \in BOOLEAN, Desc!Make(o, d, auto)
  PROVE  FdsInv'
<1> DEFINE f == IF kind[o] = "file::FD" THEN d ELSE ffd_[o]
<1>1. /\ o \notin fds_alive /\ d \notin fds_open /\ fds_alive' = fds_alive \cup {o} /\ fds_open' = fds_open \cup {d} /\ fds_claim' = fds_claim \cup {o}
      /\ fds_fd' = [fds_fd EXCEPT ![o] = d] /\ ffd_' = [ffd_ EXCEPT ![o] = f]
      /\ fds_auto_close' = [fds_auto_close EXCEPT ![o] = auto] /\ fds_init_flag' = [fds_init_flag EXCEPT ![o] = TRUE]
      /\ fds_shared' = fds_shared \ {o} /\ UNCHANGED <<kind, fds_armed, mine>>
  BY DEF Desc!Make, Desc!Put, Desc!Takes
<1>2. o \notin fds_claim /\ d \in Desc!None..FdMax /\ d # 0 /\ f \in Desc!None..FdMax /\ TRUE \in BOOLEAN /\ d \in 0..FdMax
  BY <1>1, FdsConstants DEF FdsInv, Desc!TypeOK, Desc!None
<1>3. kind[o] = "file::FD" => f = d
  OBVIOUS
<1> HIDE DEF f
<1>4. fds_open' = {0} \cup mine' \cup {fds_fd[p] : p \in fds_claim} \cup {d} /\ d \notin mine'
  BY <1>1 DEF FdsInv, Desc!FdsOwned, Desc!TypeOK
<1>5. \A p \in fds_claim : fds_fd[p] \notin mine' /\ fds_fd[p] # d
  BY <1>1, FdsClaims
<1>6. /\ fds_claim \subseteq fds_claim \ {o} /\ {o} \subseteq fds_alive' \cap {o} /\ fds_alive' \subseteq Pair /\ fds_alive \ {o} \subseteq fds_alive'
      /\ fds_open' \subseteq 0..FdMax /\ fds_armed' \subseteq fds_open' /\ 0 \notin mine' /\ kind' = kind
      /\ fds_shared \ {o} \subseteq fds_shared' /\ fds_shared' \subseteq Pair /\ o \notin fds_shared'
      /\ \A p \in fds_claim \cap fds_shared' : ~fds_auto_close[p]
  BY <1>1, <1>2 DEF FdsInv, Desc!TypeOK
<1>7. FdsTurns(o, d, f, TRUE, auto, fds_claim, {o})
  BY <1>1, <1>2, <1>3, <1>4, <1>5, <1>6 DEF FdsTurns
<1> QED BY <1>2, <1>7, FdsNow

LEMMA FdsSetFDFails ==
  ASSUME FdsInv, NEW o \in Pair, NEW auto \in BOOLEAN, Desc!SetFDFails(o, auto)
  PROVE  FdsInv'
<1> DEFINE d == IF kind[o] = "FD" THEN Desc!None
                ELSE IF ~Desc!Closes(o) THEN fds_fd[o]
                ELSE IF kind[o] = "timer::FD" THEN Desc!None ELSE 0
           f == IF Desc!Closes(o) THEN Desc!None ELSE ffd_[o]
           au == IF kind[o] \in {"FD", "timer::FD"} THEN auto ELSE fds_auto_close[o]
           fl == fds_init_flag[o] /\ kind[o] # "EventFD"
<1>1. /\ o \in fds_alive /\ Desc!NotStale(o)
      /\ IF Desc!Closes(o) THEN Desc!Replace(o, TRUE, Desc!None) ELSE UNCHANGED <<fds_open, fds_armed, fds_claim, mine>>
      /\ fds_fd' = [fds_fd EXCEPT ![o] = d] /\ ffd_' = [ffd_ EXCEPT ![o] = f]
      /\ fds_auto_close' = [fds_auto_close EXCEPT ![o] = au] /\ fds_init_flag' = [fds_init_flag EXCEPT ![o] = fl]
      /\ fds_shared' = (IF Desc!Closes(o) THEN fds_shared \ {o} ELSE fds_shared)
      /\ UNCHANGED <<kind, fds_alive>>
  BY DEF Desc!SetFDFails
<1>2. /\ Desc!Closes(o) \in BOOLEAN /\ (Desc!Closes(o) => o \in fds_claim) /\ (~Desc!Closes(o) /\ o \in fds_claim => ~fds_auto_close[o])
  BY <1>1, FdsCloses
<1>3. d \in Desc!None..FdMax /\ f \in Desc!None..FdMax /\ au \in BOOLEAN /\ fl \in BOOLEAN /\ Desc!None \in Desc!None..FdMax /\ Desc!None # 0
  <2>1. fds_fd[o] \in Desc!None..FdMax /\ ffd_[o] \in Desc!None..FdMax /\ Desc!None \in Desc!None..FdMax /\ 0 \in Desc!None..FdMax /\ Desc!None # 0
    BY FdsConstants DEF FdsInv, Desc!TypeOK, Desc!None
  <2>2. fds_auto_close[o] \in BOOLEAN /\ fds_init_flag[o] \in BOOLEAN
    BY DEF FdsInv
  <2> QED BY <2>1, <2>2
<1>4. ~Desc!Closes(o) /\ o \in fds_claim => kind[o] \in {"EpollFD", "file::FD", "EventFD"}
  BY FdsClaims DEF Desc!Closes, Desc!ClosesFD, Desc!Valid
<1>5. ~Desc!Closes(o) /\ o \in fds_claim => d = fds_fd[o] /\ f = ffd_[o] /\ au = fds_auto_close[o]
  BY <1>4
<1>6. /\ fds_alive' \subseteq Pair /\ fds_alive \ {o} \subseteq fds_alive' /\ kind' = kind
      /\ fds_shared \ {o} \subseteq fds_shared' /\ fds_shared' \subseteq Pair
  BY <1>1 DEF FdsInv, Desc!TypeOK
<1> HIDE DEF d, f, au, fl
<1>7. CASE Desc!Closes(o)
  <2> DEFINE rest == fds_claim \ Desc!Holders(fds_fd[o])
  <2>1. TRUE \in BOOLEAN /\ Desc!Replace(o, TRUE, Desc!None) /\ rest = fds_claim \ (IF TRUE THEN Desc!Holders(fds_fd[o]) ELSE {o})
    BY <1>1, <1>7
  <2> HIDE DEF rest
  <2>2. FdsLeft(o, Desc!None, rest)
    BY <1>2, <1>3, <1>7, <2>1, FdsReplaced
  <2>3. \A p \in rest \cap fds_shared' : ~fds_auto_close[p]
    BY <1>1, <1>7, <2>2 DEF FdsInv, FdsLeft
  <2>4. FdsTurns(o, d, f, fl, au, rest, {})
    BY <1>1, <1>6, <2>2, <2>3 DEF FdsTurns, FdsLeft
  <2> QED BY <1>3, <2>4, FdsNow
<1>8. CASE ~Desc!Closes(o)
  <2> DEFINE rest == fds_claim \ {o}
             has == fds_claim \cap {o}
  <2>1. fds_claim' = rest \cup has /\ rest \subseteq fds_claim \ {o} /\ has \subseteq fds_alive' \cap {o} /\ (has # {} => o \in fds_claim)
    BY <1>1, <1>8
  <2>2. /\ fds_open' \subseteq 0..FdMax /\ fds_armed' \subseteq fds_open' /\ 0 \notin mine'
        /\ (\A p \in fds_claim : fds_fd[p] \notin mine' \cup {0}) /\ \A p \in rest \cap fds_shared' : ~fds_auto_close[p]
    <3>1. \A p \in fds_claim : fds_fd[p] \notin mine \cup {0}
      BY DEF FdsInv, Desc!FdsOwned
    <3> QED BY <1>1, <1>8, <3>1 DEF FdsInv, Desc!TypeOK
  <2>3. fds_open' = {0} \cup mine' \cup {fds_fd[p] : p \in rest} \cup (IF has = {} THEN {} ELSE {fds_fd[o]})
    <3>1. {fds_fd[p] : p \in fds_claim} = {fds_fd[p] : p \in rest} \cup (IF has = {} THEN {} ELSE {fds_fd[o]})
      OBVIOUS
    <3> QED BY <1>1, <1>8, <3>1 DEF FdsInv, Desc!FdsOwned
  <2>4. (IF has = {} THEN {} ELSE {fds_fd[o]}) = (IF has = {} THEN {} ELSE {d})
    BY <1>5, <1>8
  <2>5. has # {} =>
         /\ d \notin mine' \cup {0} /\ d = fds_fd[o]
         /\ kind[o] = "file::FD" => f = d
         /\ ~au
         /\ \A p \in rest : fds_fd[p] = d => p \in fds_shared' /\ o \in fds_shared'
    BY <1>1, <1>2, <1>5, <1>8, <2>2, FdsClaims DEF FdsInv, Desc!FdsOwned
  <2>6. rest \subseteq fds_claim
    OBVIOUS
  <2> HIDE DEF rest, has
  <2>7. FdsTurns(o, d, f, fl, au, rest, has)
    BY <1>1, <1>6, <2>1, <2>2, <2>3, <2>4, <2>5, <2>6 DEF FdsTurns
  <2> QED BY <1>3, <2>7, FdsNow
<1> QED BY <1>2, <1>7, <1>8

LEMMA FdsAutoClose ==
  ASSUME FdsInv, NEW o \in Pair, NEW flag \in BOOLEAN, Desc!SetAutoClose(o, flag)
  PROVE  FdsInv'
<1>1. /\ o \in fds_alive \ fds_shared /\ (flag /\ kind[o] = "EventFD" => fds_init_flag[o])
      /\ fds_auto_close' = [fds_auto_close EXCEPT ![o] = flag]
      /\ UNCHANGED <<kind, fds_alive, fds_fd, fds_init_flag, ffd_, trigger_time_, fds_armed, fds_open, mine, fds_claim, fds_shared>>
  BY DEF Desc!SetAutoClose
<1>2. fds_auto_close' \in [Pair -> BOOLEAN] /\ fds_auto_close'[o] = flag /\ \A p \in Pair \ {o} : fds_auto_close'[p] = fds_auto_close[p]
  BY <1>1, Zenon DEF FdsInv
<1>3. fds_claim \subseteq Pair
  BY DEF FdsInv, Desc!TypeOK
<1>4. Desc!TypeOK' /\ Desc!FdsOwned'
  BY <1>1 DEF FdsInv, Desc!TypeOK, Desc!FdsOwned, Desc!Holders
<1>5. \A p \in fds_claim' \cap fds_shared' : ~fds_auto_close'[p]
  BY <1>1, <1>2, <1>3 DEF FdsInv
<1>6. \A p \in fds_claim' : kind'[p] = "EventFD" /\ fds_auto_close'[p] => fds_init_flag'[p]
  BY <1>1, <1>2, <1>3 DEF FdsInv
<1> QED BY <1>1, <1>2, <1>4, <1>5, <1>6 DEF FdsInv

LEMMA FdsCopy ==
  ASSUME FdsInv, NEW o \in Pair, NEW from \in Pair, Desc!Copy(o, from)
  PROVE  FdsInv'
<1> DEFINE has == IF from \in fds_claim THEN {o} ELSE {}
<1>1. PICK any \in BOOLEAN : fds_init_flag' = [fds_init_flag EXCEPT ![o] = any]
  BY DEF Desc!Copy
<1>2. /\ o \notin fds_alive /\ from \in fds_alive /\ kind[o] = kind[from] /\ ~fds_auto_close[from] /\ fds_alive' = fds_alive \cup {o}
      /\ fds_fd' = [fds_fd EXCEPT ![o] = fds_fd[from]] /\ ffd_' = [ffd_ EXCEPT ![o] = ffd_[from]]
      /\ fds_auto_close' = [fds_auto_close EXCEPT ![o] = fds_auto_close[from]] /\ fds_shared' = fds_shared \cup {o, from}
      /\ fds_claim' = (IF from \in fds_claim THEN fds_claim \cup {o} ELSE fds_claim)
      /\ UNCHANGED <<kind, fds_open, fds_armed, mine>>
  BY DEF Desc!Copy, Desc!Gets
<1>3. /\ o \notin fds_claim /\ fds_fd[from] \in Desc!None..FdMax /\ ffd_[from] \in Desc!None..FdMax /\ fds_auto_close[from] \in BOOLEAN
      /\ fds_alive \subseteq Pair
  BY <1>2 DEF FdsInv, Desc!TypeOK
<1>4. fds_claim' = fds_claim \cup has /\ fds_claim \subseteq fds_claim \ {o} /\ has \subseteq fds_alive' \cap {o}
      /\ (has # {} => from \in fds_claim)
  BY <1>2, <1>3
<1>5. fds_open' = {0} \cup mine' \cup {fds_fd[p] : p \in fds_claim} \cup (IF has = {} THEN {} ELSE {fds_fd[from]})
  BY <1>2 DEF FdsInv, Desc!FdsOwned
<1>6. (\A p \in fds_claim : fds_fd[p] \notin mine' \cup {0}) /\ \A p \in fds_claim \cap fds_shared' : ~fds_auto_close[p]
  BY <1>2, <1>3 DEF FdsInv, Desc!FdsOwned
<1>7. has # {} =>
        /\ fds_fd[from] \notin mine' \cup {0}
        /\ kind[o] = "file::FD" => ffd_[from] = fds_fd[from]
        /\ \A p \in fds_claim : fds_fd[p] = fds_fd[from] => p \in fds_shared' /\ o \in fds_shared'
  BY <1>2, <1>4, <1>6, FdsClaims DEF FdsInv, Desc!FdsOwned
<1> HIDE DEF has
<1>8. /\ fds_alive' \subseteq Pair /\ fds_alive \ {o} \subseteq fds_alive' /\ kind' = kind
      /\ fds_open' \subseteq 0..FdMax /\ fds_armed' \subseteq fds_open' /\ 0 \notin mine'
      /\ fds_shared \ {o} \subseteq fds_shared' /\ fds_shared' \subseteq Pair /\ ~fds_auto_close[from]
  BY <1>2 DEF FdsInv, Desc!TypeOK
<1>9. FdsTurns(o, fds_fd[from], ffd_[from], any, fds_auto_close[from], fds_claim, has)
  BY <1>1, <1>2, <1>4, <1>5, <1>6, <1>7, <1>8 DEF FdsTurns
<1> QED BY <1>3, <1>9, FdsNow

LEMMA FdsAssign ==
  ASSUME FdsInv, NEW o \in Pair, NEW from \in Pair, Desc!Assign(o, from)
  PROVE  FdsInv'
<1> DEFINE closes == fds_fd[o] > 0 /\ Desc!Valid(o) /\ fds_auto_close[o]
           d == IF from \in fds_claim THEN fds_fd[from] ELSE Desc!None
           rest == fds_claim \ (IF closes THEN Desc!Holders(fds_fd[o]) ELSE {o})
           has == IF from \in fds_claim THEN {o} ELSE {}
<1>1. /\ {o, from} \subseteq fds_alive /\ kind[o] = kind[from] /\ ~fds_auto_close[from] /\ fds_fd[o] # fds_fd[from]
      /\ (fds_auto_close[o] => Desc!NotStale(o)) /\ Desc!Replace(o, closes, d)
      /\ fds_fd' = [fds_fd EXCEPT ![o] = fds_fd[from]] /\ ffd_' = [ffd_ EXCEPT ![o] = ffd_[from]]
      /\ fds_auto_close' = [fds_auto_close EXCEPT ![o] = fds_auto_close[from]] /\ fds_shared' = fds_shared \cup {o, from}
      /\ fds_init_flag' = [fds_init_flag EXCEPT ![o] = fds_init_flag[from]]
      /\ UNCHANGED <<kind, fds_alive>>
  BY DEF Desc!Assign, Desc!Gets
<1>2. /\ fds_fd[from] \in Desc!None..FdMax /\ ffd_[from] \in Desc!None..FdMax /\ fds_auto_close[from] \in BOOLEAN
      /\ fds_init_flag[from] \in BOOLEAN /\ fds_alive \subseteq Pair /\ Desc!None \in Desc!None..FdMax /\ Desc!None # 0
  BY <1>1, FdsConstants DEF FdsInv, Desc!TypeOK, Desc!None
<1>3. closes \in BOOLEAN /\ (closes => o \in fds_claim) /\ (~closes /\ o \in fds_claim => ~fds_auto_close[o])
  BY <1>1, FdsClaims DEF Desc!NotStale, Desc!Valid
<1>4. d \in Desc!None..FdMax /\ d # 0 /\ (has = {} <=> d = Desc!None) /\ (has # {} => d = fds_fd[from] /\ from \in fds_claim)
      /\ (IF d = Desc!None THEN {} ELSE {o}) = has
  BY <1>2, FdsConstants, FdsClaims DEF Desc!None
<1>5. rest = fds_claim \ (IF closes THEN Desc!Holders(fds_fd[o]) ELSE {o})
  OBVIOUS
<1> HIDE DEF closes, d, rest, has
<1>6. FdsLeft(o, d, rest)
  BY <1>1, <1>3, <1>4, <1>5, FdsReplaced
<1>7. \A p \in rest \cap fds_shared' : ~fds_auto_close[p]
  BY <1>1, <1>6 DEF FdsInv, FdsLeft
<1>8. has # {} =>
        /\ fds_fd[from] \notin mine' \cup {0}
        /\ kind[o] = "file::FD" => ffd_[from] = fds_fd[from]
        /\ \A p \in rest : fds_fd[p] = fds_fd[from] => p \in fds_shared' /\ o \in fds_shared'
  BY <1>1, <1>4, <1>6, FdsClaims DEF FdsInv, Desc!FdsOwned, FdsLeft
<1>9. fds_open' = {0} \cup mine' \cup {fds_fd[p] : p \in rest} \cup (IF has = {} THEN {} ELSE {fds_fd[from]})
  BY <1>4, <1>6 DEF FdsLeft
<1>10. /\ fds_alive' \subseteq Pair /\ fds_alive \ {o} \subseteq fds_alive' /\ kind' = kind
       /\ fds_shared \ {o} \subseteq fds_shared' /\ fds_shared' \subseteq Pair /\ ~fds_auto_close[from]
       /\ fds_claim' = rest \cup has /\ has \subseteq fds_alive' \cap {o}
  BY <1>1, <1>2, <1>4, <1>6 DEF FdsInv, Desc!TypeOK, FdsLeft
<1>11. FdsTurns(o, fds_fd[from], ffd_[from], fds_init_flag[from], fds_auto_close[from], rest, has)
  BY <1>1, <1>6, <1>7, <1>8, <1>9, <1>10 DEF FdsTurns, FdsLeft
<1> QED BY <1>2, <1>11, FdsNow

\* o lets go of its number and keeps or forgets it.
LEMMA FdsDrops ==
  ASSUME FdsInv, NEW o \in Pair, NEW closes \in BOOLEAN, Desc!Replace(o, closes, Desc!None),
         closes => o \in fds_claim, ~closes /\ o \in fds_claim => ~fds_auto_close[o],
         NEW d \in Desc!None..FdMax, NEW f \in Desc!None..FdMax, NEW fl \in BOOLEAN, NEW au \in BOOLEAN,
         fds_fd' = [fds_fd EXCEPT ![o] = d], ffd_' = [ffd_ EXCEPT ![o] = f], kind' = kind,
         fds_init_flag' = [fds_init_flag EXCEPT ![o] = fl], fds_auto_close' = [fds_auto_close EXCEPT ![o] = au],
         fds_alive' \subseteq fds_alive, fds_alive \ {o} \subseteq fds_alive', fds_shared' \subseteq fds_shared, fds_shared \ {o} \subseteq fds_shared'
  PROVE  FdsInv'
<1> DEFINE rest == fds_claim \ (IF closes THEN Desc!Holders(fds_fd[o]) ELSE {o})
<1>1. Desc!None \in Desc!None..FdMax /\ Desc!None # 0 /\ rest = fds_claim \ (IF closes THEN Desc!Holders(fds_fd[o]) ELSE {o})
  BY FdsConstants DEF Desc!None
<1> HIDE DEF rest
<1>2. FdsLeft(o, Desc!None, rest)
  BY <1>1, FdsReplaced
<1>3. (\A p \in rest \cap fds_shared' : ~fds_auto_close[p]) /\ fds_alive' \subseteq Pair /\ fds_shared' \subseteq Pair
  BY <1>2 DEF FdsInv, Desc!TypeOK, FdsLeft
<1>4. FdsTurns(o, d, f, fl, au, rest, {})
  BY <1>2, <1>3 DEF FdsTurns, FdsLeft
<1> QED BY <1>4, FdsNow

LEMMA FdsClose ==
  ASSUME FdsInv, NEW o \in Pair, Desc!Close(o)
  PROVE  FdsInv'
<1>1. o \in fds_claim /\ Desc!Replace(o, TRUE, Desc!None) /\ UNCHANGED <<Desc!object, fds_shared>> /\ TRUE \in BOOLEAN
  BY DEF Desc!Close
<1>2. /\ fds_fd' = [fds_fd EXCEPT ![o] = fds_fd[o]] /\ ffd_' = [ffd_ EXCEPT ![o] = ffd_[o]] /\ kind' = kind
      /\ fds_fd[o] \in Desc!None..FdMax /\ ffd_[o] \in Desc!None..FdMax /\ fds_alive' = fds_alive
  BY <1>1 DEF Desc!object, FdsInv, Desc!TypeOK
<1>3. /\ fds_init_flag' = [fds_init_flag EXCEPT ![o] = fds_init_flag[o]] /\ fds_auto_close' = [fds_auto_close EXCEPT ![o] = fds_auto_close[o]]
      /\ fds_init_flag[o] \in BOOLEAN /\ fds_auto_close[o] \in BOOLEAN
  BY <1>1 DEF Desc!object, FdsInv
<1> QED BY <1>1, <1>2, <1>3, FdsDrops

LEMMA FdsDestroy ==
  ASSUME FdsInv, NEW o \in Pair, Desc!Destroy(o)
  PROVE  FdsInv'
<1> DEFINE f == IF kind[o] = "file::FD" THEN Desc!None ELSE ffd_[o]
<1>1. /\ fds_auto_close[o] => o \in fds_claim
      /\ fds_alive' = fds_alive \ {o} /\ Desc!Replace(o, fds_auto_close[o], Desc!None) /\ kind' = kind
      /\ fds_fd' = [fds_fd EXCEPT ![o] = Desc!None] /\ ffd_' = [ffd_ EXCEPT ![o] = f] /\ fds_shared' = fds_shared \ {o}
      /\ fds_auto_close' = [fds_auto_close EXCEPT ![o] = FALSE] /\ fds_init_flag' = [fds_init_flag EXCEPT ![o] = TRUE]
  BY DEF Desc!Destroy, Desc!Put, Desc!Takes
<1>2. Desc!None \in Desc!None..FdMax /\ f \in Desc!None..FdMax /\ fds_auto_close[o] \in BOOLEAN /\ TRUE \in BOOLEAN /\ FALSE \in BOOLEAN
  BY FdsConstants DEF FdsInv, Desc!TypeOK, Desc!None
<1>3. fds_alive' \subseteq fds_alive /\ fds_alive \ {o} \subseteq fds_alive' /\ fds_shared' \subseteq fds_shared /\ fds_shared \ {o} \subseteq fds_shared'
  BY <1>1
<1> HIDE DEF f
<1> QED BY <1>1, <1>2, <1>3, FdsDrops

\* What changes neither an object's number nor its flags.
LEMMA FdsRest ==
  ASSUME FdsInv, UNCHANGED <<kind, fds_alive, fds_fd, fds_auto_close, fds_init_flag, ffd_, fds_claim, fds_shared>>,
         fds_open' \subseteq 0..FdMax, fds_armed' \subseteq fds_open', 0 \notin mine', fds_open' = {0} \cup mine' \cup {fds_fd[p] : p \in fds_claim},
         \A p \in fds_claim : fds_fd[p] \notin mine'
  PROVE  FdsInv'
<1>1. Desc!TypeOK'
  BY DEF FdsInv, Desc!TypeOK
<1>2. Desc!FdsOwned'
  BY DEF FdsInv, Desc!FdsOwned, Desc!Holders
<1> QED BY <1>1, <1>2 DEF FdsInv

LEMMA FdsTimers ==
  ASSUME FdsInv, NEW o \in Pair, NEW time \in BOOLEAN, Desc!Enable(o, time) \/ Desc!Disable(o)
  PROVE  FdsInv'
<1>1. /\ o \in fds_claim /\ fds_armed' \subseteq fds_armed \cup {fds_fd[o]} /\ UNCHANGED <<fds_open, mine>>
      /\ UNCHANGED <<kind, fds_alive, fds_fd, fds_auto_close, fds_init_flag, ffd_, fds_claim, fds_shared>>
  BY DEF Desc!Enable, Desc!Disable, Desc!object
<1>2. fds_fd[o] \in fds_open /\ fds_armed \subseteq fds_open /\ fds_open \subseteq 0..FdMax /\ fds_open = {0} \cup mine \cup {fds_fd[p] : p \in fds_claim}
  BY <1>1, FdsClaims DEF FdsInv, Desc!TypeOK, Desc!FdsOwned
<1>3. 0 \notin mine /\ \A p \in fds_claim : fds_fd[p] \notin mine
  BY DEF FdsInv, Desc!FdsOwned
<1> QED BY <1>1, <1>2, <1>3, FdsRest

LEMMA FdsMine ==
  ASSUME FdsInv, NEW d \in 1..FdMax, Desc!OpenMine(d) \/ Desc!CloseMine(d)
  PROVE  FdsInv'
<1>1. fds_armed \subseteq fds_open /\ mine \subseteq fds_open /\ fds_open \subseteq 0..FdMax /\ fds_open = {0} \cup mine \cup {fds_fd[p] : p \in fds_claim}
  BY DEF FdsInv, Desc!TypeOK, Desc!FdsOwned
<1>2. 0 \notin mine /\ \A p \in fds_claim : fds_fd[p] \notin mine /\ fds_fd[p] \in fds_open
  BY FdsClaims DEF FdsInv
<1>3. UNCHANGED <<kind, fds_alive, fds_fd, fds_auto_close, fds_init_flag, ffd_, fds_claim, fds_shared>>
  BY DEF Desc!OpenMine, Desc!CloseMine, Desc!object
<1>4. CASE Desc!OpenMine(d)
  <2>1. d \notin fds_open /\ fds_open' = fds_open \cup {d} /\ mine' = mine \cup {d} /\ fds_armed' = fds_armed /\ d # 0 /\ d \in 0..FdMax
    BY <1>4 DEF Desc!OpenMine
  <2> QED BY <1>1, <1>2, <1>3, <2>1, FdsRest
<1>5. CASE Desc!CloseMine(d)
  <2>1. d \in mine /\ fds_open' = fds_open \ {d} /\ mine' = mine \ {d} /\ fds_armed' = fds_armed \ {d} /\ d # 0
    BY <1>5 DEF Desc!CloseMine
  <2>2. fds_open' = {0} \cup mine' \cup {fds_fd[p] : p \in fds_claim}
    BY <1>1, <1>2, <2>1
  <2> QED BY <1>1, <1>2, <1>3, <2>1, <2>2, FdsRest
<1> QED BY <1>4, <1>5

LEMMA FdsStep == FdsInv /\ Desc!Next => FdsInv'
<1> SUFFICES ASSUME FdsInv, Desc!Next PROVE FdsInv'
  OBVIOUS
<1>1. ASSUME NEW o \in Pair, NEW d \in 1..FdMax, Desc!MakeEpoll(o, d) \/ Desc!MakeTimer(o, d) \/ Desc!MakeEvent(o, d)
      PROVE  FdsInv'
  BY <1>1, FdsMake DEF Desc!MakeEpoll, Desc!MakeTimer, Desc!MakeEvent
<1>2. ASSUME NEW o \in Pair, NEW d \in 1..FdMax, NEW auto \in BOOLEAN,
             Desc!OpenFile(o, d, auto) \/ Desc!SetFD(o, d, auto) \/ Desc!SetStream(o, d, auto)
      PROVE  FdsInv'
  BY <1>2, FdsMake, FdsSetFD, FdsSetStream DEF Desc!OpenFile
<1>3. ASSUME NEW o \in Pair, NEW from \in Pair, Desc!Copy(o, from) \/ Desc!OfFile(o, from) \/ Desc!Assign(o, from)
      PROVE  FdsInv'
  BY <1>3, FdsCopy, FdsAssign DEF Desc!OfFile
<1>4. ASSUME NEW o \in Pair, NEW flag \in BOOLEAN, Desc!SetFDFails(o, flag) \/ Desc!SetAutoClose(o, flag) \/ Desc!Enable(o, flag)
      PROVE  FdsInv'
  BY <1>4, FdsSetFDFails, FdsAutoClose, FdsTimers
<1>5. ASSUME NEW o \in Pair, Desc!Disable(o)
      PROVE  FdsInv'
  BY <1>5, FdsTimers
<1> QED BY <1>1, <1>2, <1>3, <1>4, <1>5, FdsMine, FdsClose, FdsDestroy, FdsNew, FdsDup DEF Desc!Next

LEMMA FdsIdle == FdsInv /\ UNCHANGED fds_vars => FdsInv'
BY DEF FdsInv, Desc!TypeOK, Desc!FdsOwned, Desc!Holders, fds_vars, Desc!object

LEMMA FdsMeans == FdsInv => Desc!TypeOK /\ Desc!FdsOwned
BY DEF FdsInv


-----------------------------------------------------------------------------
(***************************************************************************)
(* AutoSelect: items, the map and the callbacks that run.                  *)
(***************************************************************************)
LEMMA SelectConstants == nil \notin Pair /\ SelectOpened \in Nat \ {0}
BY PartsAssumption
LEMMA SelectCardinality == \A S : Sel!Cardinality(S) = Cardinality(S)
BY DEF Cardinality, Sel!Cardinality

SelectTypes ==
  /\ opened \in [Pair -> 1..SelectOpened] /\ isopen \in [Pair -> BOOLEAN]
  /\ ready \subseteq Pair /\ epoll \subseteq Pair /\ select_armed \subseteq epoll
  /\ DOMAIN select_item_map_ \subseteq Pair
  /\ \A fd \in DOMAIN select_item_map_ : select_item_map_[fd] \in Sel!Items /\ select_item_map_[fd].fd = fd
  /\ adding \in [Sel!Users -> Pair \cup {nil}]
  /\ listener \in {"off", "waits", "dispatches", "calling"}
  /\ rep_evts \subseteq [fd : Pair, opened : 1..SelectOpened]
  /\ IF listener = "calling" THEN \E item \in Sel!Items : called = {item} ELSE called = {}
  /\ errno \in BOOLEAN

\* The item in the map for fd is for the descriptor that fd is now.
Current(fd) == fd \in DOMAIN select_item_map_ /\ select_item_map_[fd].opened = opened[fd] /\ isopen[fd]

\* An item whose turn is to come, or has come, which nobody is adding.
Standing(fd) ==
  /\ fd \in DOMAIN select_item_map_ /\ \A u \in Sel!Users : adding[u] # fd
  /\ select_item_map_[fd].oneshot => fd \notin select_armed

EventsHaveItems ==
  /\ \A e \in rep_evts : Standing(e.fd) /\ select_item_map_[e.fd].opened = e.opened
  /\ \A d, e \in rep_evts : d.fd = e.fd => d = e

CalledInMap ==
  \A item \in called :
    /\ Standing(item.fd) /\ select_item_map_[item.fd] = item
    /\ \A e \in rep_evts : e.fd # item.fd

SelectInv ==
  /\ SelectTypes /\ EventsHaveItems /\ CalledInMap
  /\ \A fd \in select_armed : Current(fd)
  /\ \A u \in Sel!Users : adding[u] # nil =>
       /\ Current(adding[u]) /\ adding[u] \notin select_armed
       /\ \A v \in Sel!Users : adding[u] = adding[v] => u = v

LEMMA SelectStart == Sel!Init => SelectInv
<1> SUFFICES ASSUME Sel!Init PROVE SelectInv
  OBVIOUS
<1>1. DOMAIN select_item_map_ = {}
  BY DEF Sel!Init
<1>2. SelectTypes
  <2>1. opened \in [Pair -> 1..SelectOpened] /\ isopen \in [Pair -> BOOLEAN]
    BY SelectConstants DEF Sel!Init
  <2>2. adding \in [Sel!Users -> Pair \cup {nil}]
    BY DEF Sel!Init
  <2> QED BY <1>1, <2>1, <2>2 DEF Sel!Init, SelectTypes
<1> QED BY <1>2 DEF Sel!Init, SelectInv, EventsHaveItems, CalledInMap

LEMMA SelectMeans == SelectInv => Sel!TypeOK /\ Sel!ItemsServed
<1> SUFFICES ASSUME SelectInv PROVE Sel!TypeOK /\ Sel!ItemsServed
  OBVIOUS
<1>1. called \subseteq Sel!Items /\ Sel!Cardinality(called) = (IF listener = "calling" THEN 1 ELSE 0)
  <2>1. Sel!Cardinality({}) = 0 /\ \A item : Sel!Cardinality({item}) = 1
    BY FS_EmptySet, FS_Singleton, SelectCardinality
  <2> QED BY <2>1 DEF SelectInv, SelectTypes
<1>2. Sel!TypeOK
  BY <1>1 DEF SelectInv, SelectTypes, Sel!TypeOK
<1>3. Sel!ItemsServed
  BY DEF SelectInv, Sel!ItemsServed, EventsHaveItems, CalledInMap, Standing, Current
<1> QED BY <1>2, <1>3

LEMMA SelectStep ==
  ASSUME SelectInv, Sel!Next
  PROVE  SelectInv'
<1> USE SelectConstants
<1>1. ASSUME NEW fd \in Pair, Sel!EventArrives(fd)
      PROVE  SelectInv'
  BY <1>1
     DEF Sel!EventArrives, Sel!loop, SelectInv, SelectTypes, EventsHaveItems, CalledInMap, Standing, Current
<1>2. ASSUME NEW fd \in Pair, Sel!CloseFd(fd)
      PROVE  SelectInv'
  BY <1>2 DEF Sel!CloseFd, Sel!loop, SelectInv, SelectTypes, EventsHaveItems, CalledInMap, Standing, Current
<1>3. ASSUME NEW fd \in Pair, Sel!OpenFd(fd)
      PROVE  SelectInv'
  <2>1. opened[fd] + 1 \in 1..SelectOpened
    BY <1>3 DEF Sel!OpenFd, SelectInv, SelectTypes
  <2> QED BY <1>3, <2>1
     DEF Sel!OpenFd, Sel!loop, SelectInv, SelectTypes, EventsHaveItems, CalledInMap, Standing, Current
<1>4. ASSUME NEW u \in Sel!Users, NEW fd \in Pair, NEW oneshot \in BOOLEAN, Sel!InsertItem(u, fd, oneshot)
      PROVE  SelectInv'
  <2> DEFINE item == [fd |-> fd, opened |-> opened[fd], oneshot |-> oneshot]
  <2>1. /\ adding[u] = nil /\ isopen[fd] /\ (\A v \in Sel!Users : adding[v] # fd)
        /\ fd \notin DOMAIN select_item_map_ /\ fd \notin select_armed
        /\ adding' = [adding EXCEPT ![u] = fd] /\ UNCHANGED <<Sel!kernel, Sel!loop>>
        /\ item \in Sel!Items /\ item.fd = fd /\ item.opened = opened[fd]
    BY <1>4 DEF Sel!InsertItem, Sel!MayAdd, SelectInv, SelectTypes, Sel!Items, Current
  <2>2. /\ DOMAIN select_item_map_' = DOMAIN select_item_map_ \cup {fd}
        /\ select_item_map_'[fd] = item
        /\ \A f \in DOMAIN select_item_map_ : select_item_map_'[f] = select_item_map_[f]
    BY <1>4, <2>1 DEF Sel!InsertItem, Sel!Put
  <2> HIDE DEF item
  <2>3. SelectTypes'
    BY <2>1, <2>2 DEF SelectInv, SelectTypes, Sel!kernel, Sel!loop
  <2>4. \A f \in DOMAIN select_item_map_ : f # fd /\ (Standing(f) => Standing(f)')
    BY <2>1, <2>2 DEF Standing, Sel!kernel, SelectInv, SelectTypes
  <2>5. EventsHaveItems' /\ CalledInMap'
    BY <2>1, <2>2, <2>4 DEF SelectInv, EventsHaveItems, CalledInMap, Standing, Sel!loop
  <2>6. Current(fd)' /\ \A f : Current(f) => Current(f)'
    BY <2>1, <2>2 DEF Current, Sel!kernel
  <2> QED BY <2>1, <2>3, <2>5, <2>6 DEF SelectInv, SelectTypes, Sel!kernel
<1>5. ASSUME NEW u \in Sel!Users, Sel!AddEvent(u)
      PROVE  SelectInv'
  <2> DEFINE fd == adding[u]
  <2>1. /\ fd # nil /\ fd \in Pair /\ Current(fd) /\ fd \notin select_armed
        /\ (\A v \in Sel!Users : v # u => adding[v] # fd)
        /\ adding' = [adding EXCEPT ![u] = nil]
        /\ UNCHANGED <<opened, isopen, ready, Sel!loop>>
    BY <1>5 DEF Sel!AddEvent, SelectInv, SelectTypes
  <2>2. \A e \in rep_evts : e.fd # fd
    BY DEF SelectInv, EventsHaveItems, Standing
  <2>3. \A item \in called : item.fd # fd
    BY DEF SelectInv, CalledInMap, Standing
  <2>4. CASE fd \in epoll
    <3>1. /\ DOMAIN select_item_map_' = DOMAIN select_item_map_ \ {fd}
          /\ \A f \in DOMAIN select_item_map_ : f # fd => select_item_map_'[f] = select_item_map_[f]
          /\ UNCHANGED <<epoll, select_armed>>
      BY <1>5, <2>4 DEF Sel!AddEvent, Sel!Drop
    <3>2. SelectTypes'
      BY <2>1, <3>1 DEF SelectInv, SelectTypes, Sel!loop
    <3>3. \A f : Standing(f) => Standing(f)'
      BY <2>1, <3>1 DEF Standing, SelectInv, SelectTypes
    <3>4. EventsHaveItems' /\ CalledInMap'
      BY <2>1, <2>2, <2>3, <3>1, <3>3 DEF SelectInv, EventsHaveItems, CalledInMap, Standing, Sel!loop
    <3>5. \A f : f # fd /\ Current(f) => Current(f)'
      BY <2>1, <3>1 DEF Current
    <3> QED BY <2>1, <3>1, <3>2, <3>4, <3>5 DEF SelectInv, SelectTypes
  <2>5. CASE fd \notin epoll
    <3>1. epoll' = epoll \cup {fd} /\ select_armed' = select_armed \cup {fd} /\ UNCHANGED select_item_map_
      BY <1>5, <2>5 DEF Sel!AddEvent
    <3>2. SelectTypes'
      BY <2>1, <3>1 DEF SelectInv, SelectTypes, Sel!loop
    <3>3. \A f : Standing(f) => Standing(f)'
      BY <2>1, <3>1 DEF Standing, SelectInv, SelectTypes
    <3>4. EventsHaveItems' /\ CalledInMap'
      BY <2>1, <2>2, <2>3, <3>1, <3>3 DEF SelectInv, EventsHaveItems, CalledInMap, Standing, Sel!loop
    <3>5. \A f : Current(f) => Current(f)'
      BY <2>1, <3>1 DEF Current
    <3> QED BY <2>1, <3>1, <3>2, <3>4, <3>5 DEF SelectInv, SelectTypes
  <2> QED BY <2>4, <2>5
<1>6. CASE Sel!Listen
  BY <1>6 DEF Sel!Listen, Sel!kernel, SelectInv, SelectTypes, EventsHaveItems, CalledInMap, Standing, Current
<1>7. CASE Sel!Report
  <2>1. PICK evts \in SUBSET (ready \cap select_armed) \ {{}} :
          /\ rep_evts' = {[fd |-> fd, opened |-> opened[fd]] : fd \in evts}
          /\ ready' = ready \ evts
          /\ select_armed' = select_armed \ {fd \in evts : Sel!Oneshot(fd)}
    BY <1>7 DEF Sel!Report, Sel!Disarm
  <2>2. listener' = "dispatches" /\ called = {}
        /\ UNCHANGED <<opened, isopen, epoll, select_item_map_, adding, called, errno>>
    BY <1>7 DEF Sel!Report, SelectInv, SelectTypes
  <2>3. evts \subseteq Pair /\ evts \subseteq select_armed
    BY <2>1 DEF SelectInv, SelectTypes
  <2>4. SelectTypes'
    BY <2>1, <2>2, <2>3 DEF SelectInv, SelectTypes
  <2>5. ASSUME NEW e \in rep_evts'
        PROVE  Standing(e.fd)' /\ select_item_map_'[e.fd].opened = e.opened
    <3>1. e.fd \in evts /\ e.opened = opened[e.fd]
      BY <2>1
    <3>2. Current(e.fd) /\ \A u \in Sel!Users : adding[u] # e.fd
      BY <2>3, <3>1 DEF SelectInv, SelectTypes
    <3> QED BY <2>1, <2>2, <3>1, <3>2 DEF Standing, Current, Sel!Oneshot
  <2>6. \A d, e \in rep_evts' : d.fd = e.fd => d = e
    BY <2>1
  <2> QED BY <2>1, <2>2, <2>4, <2>5, <2>6 DEF SelectInv, EventsHaveItems, CalledInMap, Current
<1>8. CASE Sel!TimesOut
  BY <1>8 DEF Sel!TimesOut, Sel!kernel, SelectInv, SelectTypes, EventsHaveItems, CalledInMap, Standing, Current
<1>9. CASE Sel!Interrupted
  BY <1>9
     DEF Sel!Interrupted, Sel!kernel, SelectInv, SelectTypes, EventsHaveItems, CalledInMap, Standing, Current
<1>10. ASSUME NEW e \in rep_evts, Sel!Dispatch(e)
       PROVE  SelectInv'
  <2>1. /\ Standing(e.fd) /\ select_item_map_[e.fd] \in Sel!Items /\ select_item_map_[e.fd].fd = e.fd
        /\ \A d \in rep_evts : d.fd = e.fd => d = e
    BY DEF SelectInv, EventsHaveItems, SelectTypes, Standing
  <2>2. /\ rep_evts' = rep_evts \ {e} /\ listener' = "calling" /\ called' = {select_item_map_[e.fd]}
        /\ UNCHANGED <<Sel!kernel, select_item_map_, adding, errno>>
    BY <1>10, <2>1 DEF Sel!Dispatch, Standing
  <2>3. SelectTypes'
    BY <2>1, <2>2 DEF SelectInv, SelectTypes, Sel!kernel
  <2>4. \A f : Standing(f) => Standing(f)'
    BY <2>2 DEF Standing, Sel!kernel
  <2>5. EventsHaveItems' /\ CalledInMap'
    BY <2>1, <2>2, <2>4 DEF SelectInv, EventsHaveItems, CalledInMap
  <2> QED BY <2>2, <2>3, <2>5 DEF SelectInv, Current, Sel!kernel
<1>11. CASE Sel!CallbackReturns
  <2>1. PICK item \in Sel!Items : called = {item}
    BY <1>11 DEF Sel!CallbackReturns, SelectInv, SelectTypes
  <2>2. /\ select_item_map_' = IF item.oneshot THEN Sel!Drop(select_item_map_, item.fd) ELSE select_item_map_
        /\ called' = {} /\ listener' = "dispatches" /\ errno' \in BOOLEAN
        /\ UNCHANGED <<Sel!kernel, adding, rep_evts>>
    BY <1>11, <2>1 DEF Sel!CallbackReturns
  <2>3. /\ Standing(item.fd) /\ select_item_map_[item.fd] = item
        /\ \A e \in rep_evts : e.fd # item.fd
    BY <2>1 DEF SelectInv, CalledInMap
  <2>4. /\ DOMAIN select_item_map_' \subseteq DOMAIN select_item_map_
        /\ \A f \in DOMAIN select_item_map_' : select_item_map_'[f] = select_item_map_[f]
        /\ \A f \in DOMAIN select_item_map_ : f # item.fd => f \in DOMAIN select_item_map_'
        /\ ~item.oneshot => select_item_map_' = select_item_map_
    BY <2>2 DEF Sel!Drop
  <2>5. SelectTypes'
    BY <2>2, <2>4 DEF SelectInv, SelectTypes, Sel!kernel
  <2>6. \A f : f # item.fd /\ Standing(f) => Standing(f)'
    BY <2>2, <2>4 DEF Standing, Sel!kernel
  <2>7. EventsHaveItems' /\ CalledInMap'
    BY <2>2, <2>3, <2>4, <2>6 DEF SelectInv, EventsHaveItems, CalledInMap, Standing
  <2>8. \A f : Current(f) /\ (f # item.fd \/ ~item.oneshot) => Current(f)'
    BY <2>2, <2>4 DEF Current, Sel!kernel
  <2>9. item.oneshot => item.fd \notin select_armed
    BY <2>3 DEF Standing
  <2> QED BY <2>2, <2>3, <2>5, <2>7, <2>8, <2>9 DEF SelectInv, Standing, Sel!kernel
<1>12. CASE Sel!BatchDone
  BY <1>12
     DEF Sel!BatchDone, Sel!kernel, SelectInv, SelectTypes, EventsHaveItems, CalledInMap, Standing, Current
<1> QED BY <1>1, <1>2, <1>3, <1>4, <1>5, <1>6, <1>7, <1>8, <1>9, <1>10, <1>11, <1>12 DEF Sel!Next

LEMMA SelectIdle == SelectInv /\ UNCHANGED select_vars => SelectInv'
BY DEF select_vars, Sel!kernel, Sel!loop, SelectInv, SelectTypes, EventsHaveItems, CalledInMap, Standing,
       Current


-----------------------------------------------------------------------------
(***************************************************************************)
(* Epoll: its queue of ready items.                                        *)
(***************************************************************************)
LEMMA EpollConstants == EpollItems \in Nat \ {0}
BY PartsAssumption

LEMMA LeastNumber ==
  ASSUME NEW S, S \subseteq Nat, S # {}
  PROVE  \E m \in S : \A k \in S : m <= k
<1> DEFINE R == {ss \in Nat \X Nat : ss[1] < ss[2]}
<1>1. IsWellFoundedOn(R, Nat)
  BY NatLessThanWellFounded DEF OpToRel
<1> HIDE DEF R
<1>2. \E m \in S : \A k \in S : ~ (<<k, m>> \in R)
  BY <1>1, WFMin
<1>3. \A k, m \in S : ~ (<<k, m>> \in R) => m <= k
  BY DEF R
<1> QED BY <1>2, <1>3

\* A part of a sequence.
LEMMA PartOf ==
  ASSUME NEW S, NEW s \in Seq(S), NEW m \in Nat, NEW n \in Nat, 1 <= m, m <= n + 1, n <= Len(s)
  PROVE  /\ SubSeq(s, m, n) \in Seq(S) /\ Len(SubSeq(s, m, n)) = n - m + 1
         /\ \A i \in 1..n - m + 1 : SubSeq(s, m, n)[i] = s[m + i - 1]
<1>1. \A i \in m..n : s[i] \in S
  OBVIOUS
<1>2. /\ SubSeq(s, m, n) \in Seq(S)
      /\ Len(SubSeq(s, m, n)) = IF m <= n THEN n - m + 1 ELSE 0
      /\ \A i \in 1..n - m + 1 : SubSeq(s, m, n)[i] = s[m + i - 1]
  BY <1>1, SubSeqProperties
<1> QED BY <1>2

\* A sequence without one of its elements.
LEMMA WithoutOne ==
  ASSUME NEW S, NEW s \in Seq(S), NEW i \in 1..Len(s),
         NEW t, t = SubSeq(s, 1, i - 1) \o SubSeq(s, i + 1, Len(s))
  PROVE  /\ t \in Seq(S) /\ Len(t) = Len(s) - 1
         /\ \A j \in 1..Len(s) - 1 : t[j] = IF j < i THEN s[j] ELSE s[j + 1]
<1>1. PICK n \in Nat : n = Len(s)
  OBVIOUS
<1>2. PICK k \in Nat : k = i - 1
  OBVIOUS
<1>3. i \in Nat /\ k + 1 = i /\ i + 1 \in Nat /\ k <= n /\ i <= n /\ k \in Nat /\ 1 \in Nat
  BY <1>1, <1>2
<1> DEFINE x == SubSeq(s, 1, k)
           y == SubSeq(s, i + 1, n)
<1>4. x \in Seq(S) /\ Len(x) = k /\ \A j \in 1..k : x[j] = s[j]
  <2>1. x \in Seq(S) /\ Len(x) = k - 1 + 1 /\ \A j \in 1..k - 1 + 1 : x[j] = s[1 + j - 1]
    BY <1>1, <1>3, PartOf
  <2> QED BY <1>3, <2>1
<1>5. y \in Seq(S) /\ Len(y) = n - i /\ \A j \in 1..n - i : y[j] = s[i + j]
  <2>1. /\ y \in Seq(S) /\ Len(y) = n - (i + 1) + 1
        /\ \A j \in 1..n - (i + 1) + 1 : y[j] = s[(i + 1) + j - 1]
    BY <1>1, <1>3, PartOf
  <2> QED BY <1>1, <1>3, <2>1
<1> HIDE DEF x, y
<1>6. /\ x \o y \in Seq(S) /\ Len(x \o y) = Len(x) + Len(y)
      /\ \A j \in 1..Len(x) + Len(y) : (x \o y)[j] = IF j <= Len(x) THEN x[j] ELSE y[j - Len(x)]
  BY <1>4, <1>5, ConcatProperties
<1>7. t = x \o y
  BY <1>1, <1>2 DEF x, y
<1>8. k + (n - i) = n - 1
  BY <1>1, <1>3
<1>9. \A j \in 1..n - 1 : t[j] = IF j <= k THEN x[j] ELSE y[j - k]
  BY <1>4, <1>5, <1>6, <1>7, <1>8
<1>10. \A j \in 1..n - 1 : t[j] = IF j < i THEN s[j] ELSE s[j + 1]
  <2> TAKE j \in 1..n - 1
  <2>1. CASE j < i
    <3>1. j <= k /\ j \in 1..k
      BY <2>1, <1>3
    <3> QED BY <2>1, <3>1, <1>4, <1>9
  <2>2. CASE j >= i
    <3>1. j - k \in 1..n - i /\ i + (j - k) = j + 1 /\ ~(j <= k) /\ ~(j < i)
      BY <2>2, <1>3
    <3> QED BY <3>1, <1>5, <1>9
  <2>3. j < i \/ j >= i
    BY <1>3
  <2> QED BY <2>1, <2>2, <2>3
<1> QED BY <1>1, <1>4, <1>5, <1>6, <1>7, <1>8, <1>10






Grows(upto, s, keep, n) ==
  /\ DOMAIN upto = 0..n
  /\ upto[0] = <<>>
  /\ \A k \in 1..n : upto[k] = IF s[k] \in keep THEN Append(upto[k - 1], s[k]) ELSE upto[k - 1]

LEMMA AmongGrows ==
  ASSUME NEW s, Len(s) \in Nat, NEW keep
  PROVE  \E upto : Grows(upto, s, keep, Len(s)) /\ Epoll!Among(s, keep) = upto[Len(s)]
<1> DEFINE Is(f, m) == f = [k \in 0..m |-> IF k = 0 THEN <<>>
                             ELSE IF s[k] \in keep THEN Append(f[k - 1], s[k]) ELSE f[k - 1]]
           bad == {m \in Nat : ~\E f : Is(f, m)}
<1>1. bad = {}
  <2> SUFFICES ASSUME bad # {} PROVE FALSE
    OBVIOUS
  <2>1. PICK m \in bad : \A n \in bad : m <= n
    <3> HIDE DEF bad
    <3>1. bad \subseteq Nat
      BY DEF bad
    <3> QED BY <3>1, LeastNumber
  <2>2. m # 0
    <3>1. Is([k \in 0..0 |-> <<>>], 0)
      OBVIOUS
    <3> QED BY <3>1
  <2>3. PICK n \in Nat : m = n + 1
    BY <2>2
  <2>4. PICK f : Is(f, n)
    <3>1. n \notin bad
      <4> HIDE DEF bad
      <4> QED BY <2>1, <2>3
    <3> QED BY <3>1
  <2> DEFINE g == [k \in 0..m |-> IF k = m THEN IF s[m] \in keep THEN Append(f[n], s[m]) ELSE f[n]
                                  ELSE f[k]]
  <2>5. \A k \in 0..m : k # m => k \in 0..n /\ (k # 0 => k - 1 \in 0..n)
    BY <2>3
  <2>6. Is(g, m)
    <3>1. ASSUME NEW k \in 0..m
          PROVE  g[k] = IF k = 0 THEN <<>>
                        ELSE IF s[k] \in keep THEN Append(g[k - 1], s[k]) ELSE g[k - 1]
      <4>1. CASE k = m
        <5>1. k # 0 /\ k - 1 = n /\ n \in 0..m /\ n # m /\ g[n] = f[n]
          BY <2>2, <2>3, <4>1
        <5> QED BY <4>1, <5>1
      <4>2. CASE k # m
        <5>1. g[k] = f[k] /\ k \in 0..n
          BY <4>2, <2>5
        <5>2. CASE k = 0
          BY <5>1, <5>2, <2>4
        <5>3. CASE k # 0
          <6>1. k - 1 \in 0..m /\ k - 1 # m /\ g[k - 1] = f[k - 1]
            BY <5>3, <4>2, <2>3
          <6> QED BY <5>1, <5>3, <6>1, <2>4
        <5> QED BY <5>2, <5>3
      <4> QED BY <4>1, <4>2
    <3> QED BY <3>1
  <2> QED BY <2>1, <2>6
<1>2. \E f : Is(f, Len(s))
  BY Zenon, <1>1
<1> DEFINE u == CHOOSE f : Is(f, Len(s))
<1>3. Is(u, Len(s)) /\ Epoll!Among(s, keep) = u[Len(s)]
  BY Zenon, <1>2 DEF Epoll!Among
<1> HIDE DEF u
<1>4. \A k \in 1..Len(s) : k \in 0..Len(s) /\ k # 0
  OBVIOUS
<1>5. Grows(u, s, keep, Len(s))
  <2>1. DOMAIN u = 0..Len(s) /\ 0 \in 0..Len(s)
    BY <1>3
  <2>2. u[0] = <<>>
    BY <1>3, <2>1
  <2>3. ASSUME NEW k \in 1..Len(s)
        PROVE  u[k] = IF s[k] \in keep THEN Append(u[k - 1], s[k]) ELSE u[k - 1]
    BY <1>3, <1>4
  <2> QED BY <2>1, <2>2, <2>3 DEF Grows
<1> QED BY <1>3, <1>5

\* What is kept of the first k members.
Kept(t, s, keep, S, k) ==
  /\ t \in Seq(S) /\ Len(t) <= k
  /\ \A j \in 1..Len(t) : t[j] \in keep /\ \E i \in 1..k : t[j] = s[i]
  /\ \A i \in 1..k : s[i] \in keep => \E j \in 1..Len(t) : t[j] = s[i]
  /\ (\A i, j \in 1..k : s[i] = s[j] => i = j) => \A i, j \in 1..Len(t) : t[i] = t[j] => i = j

LEMMA AmongIs ==
  ASSUME NEW S, NEW s \in Seq(S), NEW keep
  PROVE  Kept(Epoll!Among(s, keep), s, keep, S, Len(s))
<1>1. PICK n \in Nat : n = Len(s)
  OBVIOUS
<1>2. PICK upto : Grows(upto, s, keep, n) /\ Epoll!Among(s, keep) = upto[n]
  BY <1>1, AmongGrows
<1> DEFINE bad == {k \in 0..n : ~Kept(upto[k], s, keep, S, k)}
<1>3. bad = {}
  <2> SUFFICES ASSUME bad # {} PROVE FALSE
    OBVIOUS
  <2>1. PICK k \in bad : \A j \in bad : k <= j
    <3> HIDE DEF bad
    <3>1. bad \subseteq Nat
      BY DEF bad
    <3> QED BY <3>1, LeastNumber
  <2>2. Kept(upto[0], s, keep, S, 0)
    <3>1. upto[0] = <<>> /\ <<>> \in Seq(S) /\ Len(<<>>) = 0
      BY <1>2 DEF Grows
    <3> QED BY <3>1 DEF Kept
  <2>3. PICK p \in Nat : k = p + 1 /\ p \in 0..n /\ k \in 1..n /\ k - 1 = p
    BY <2>1, <2>2
  <2>4. Kept(upto[p], s, keep, S, p)
    BY <2>1, <2>3
  <2>5. PICK u : u = upto[p]
    OBVIOUS
  <2>6. /\ u \in Seq(S) /\ Len(u) <= p
        /\ \A j \in 1..Len(u) : u[j] \in keep /\ \E i \in 1..p : u[j] = s[i]
        /\ \A i \in 1..p : s[i] \in keep => \E j \in 1..Len(u) : u[j] = s[i]
        /\ (\A i, j \in 1..p : s[i] = s[j] => i = j) => \A i, j \in 1..Len(u) : u[i] = u[j] => i = j
    BY <2>4, <2>5 DEF Kept
  <2>7. 1..p \subseteq 1..k /\ \A i \in 1..k : i \in 1..p \/ i = k
    BY <2>3
  <2>8. s[k] \in S
    BY <1>1, <2>3
  <2>9. CASE s[k] \notin keep
    <3>1. upto[k] = u
      BY <1>2, <2>3, <2>5, <2>9 DEF Grows
    <3>2. Kept(u, s, keep, S, k)
      <4>1. Len(u) <= k
        BY <2>3, <2>6
      <4>2. \A j \in 1..Len(u) : u[j] \in keep /\ \E i \in 1..k : u[j] = s[i]
        BY <2>6, <2>7
      <4>3. \A i \in 1..k : s[i] \in keep => \E j \in 1..Len(u) : u[j] = s[i]
        BY <2>6, <2>7, <2>9
      <4>4. (\A i, j \in 1..k : s[i] = s[j] => i = j) => \A i, j \in 1..Len(u) : u[i] = u[j] => i = j
        BY <2>6, <2>7
      <4> QED BY <2>6, <4>1, <4>2, <4>3, <4>4 DEF Kept
    <3> QED BY <2>1, <3>1, <3>2
  <2>10. CASE s[k] \in keep
    <3>1. upto[k] = Append(u, s[k])
      BY <1>2, <2>3, <2>5, <2>10 DEF Grows
    <3>2. PICK t : t = Append(u, s[k])
      OBVIOUS
    <3>3. PICK l \in Nat : l = Len(u) /\ l <= p
      BY <2>6
    <3>4. /\ t \in Seq(S) /\ Len(t) = l + 1 /\ t[l + 1] = s[k]
          /\ \A j \in 1..l : t[j] = u[j]
      BY <2>6, <2>8, <3>2, <3>3
    <3>5. l + 1 <= k /\ 1..l \subseteq 1..l + 1 /\ l + 1 \in 1..l + 1 /\ \A j \in 1..l + 1 : j \in 1..l \/ j = l + 1
      BY <2>3, <3>3
    <3>6. \A j \in 1..l + 1 : t[j] \in keep /\ \E i \in 1..k : t[j] = s[i]
      <4>1. \A j \in 1..l : u[j] \in keep /\ \E i \in 1..k : u[j] = s[i]
        BY <2>6, <2>7, <3>3
      <4>2. k \in 1..k
        BY <2>3
      <4> QED BY <2>10, <3>4, <3>5, <4>1, <4>2
    <3>7. ASSUME NEW i \in 1..k, s[i] \in keep
          PROVE  \E j \in 1..l + 1 : t[j] = s[i]
      <4>1. CASE i = k
        BY <4>1, <3>4, <3>5
      <4>2. CASE i # k
        <5>1. i \in 1..p
          BY <4>2, <2>7
        <5>2. PICK j \in 1..l : u[j] = s[i]
          BY <5>1, <3>7, <2>6, <3>3
        <5> QED BY <5>2, <3>4, <3>5
      <4> QED BY <4>1, <4>2
    <3>8. ASSUME \A i, j \in 1..k : s[i] = s[j] => i = j
          PROVE  \A i, j \in 1..l + 1 : t[i] = t[j] => i = j
      <4>1. \A i, j \in 1..l : t[i] = t[j] => i = j
        <5>1. \A i, j \in 1..l : u[i] = u[j] => i = j
          BY <3>8, <2>6, <2>7, <3>3
        <5> QED BY <5>1, <3>4
      <4>2. ASSUME NEW j \in 1..l PROVE t[j] # s[k]
        <5>1. PICK i \in 1..p : t[j] = s[i]
          BY <2>6, <3>3, <3>4
        <5>2. i # k
          BY <2>3
        <5> QED BY <3>8, <5>1, <5>2, <2>3, <2>7
      <4> QED BY <4>1, <4>2, <3>4, <3>5
    <3>9. Kept(t, s, keep, S, k)
      BY <3>4, <3>5, <3>6, <3>7, <3>8 DEF Kept
    <3> QED BY <2>1, <3>1, <3>2, <3>9
  <2> QED BY <2>9, <2>10
<1>4. Kept(upto[n], s, keep, S, n)
  BY <1>3
<1> QED BY <1>1, <1>2, <1>4

EdgesInv ==
  /\ Epoll!TypeOK /\ epoll_owed \subseteq registered /\ unheard = {}
  /\ \A f \in EpollFds : f \in registered <=> epoll_asked[f] # {}
  /\ \A f \in epoll_owed : Epoll!Holds(f, epoll_asked[f]) # {} => Epoll!Queued(f)
  /\ \A i, j \in 1..Len(pending) : pending[i] = pending[j] => i = j

LEMMA EdgesStart == Epoll!Init => EdgesInv
<1> SUFFICES ASSUME Epoll!Init PROVE EdgesInv
  OBVIOUS
<1>1. pending = <<>> /\ events = <<>> /\ pending \in Seq(registered)
      /\ events \in Seq((SUBSET Epoll!Events) \ {{}})
  BY DEF Epoll!Init
<1>2. Epoll!TypeOK
  BY <1>1 DEF Epoll!Init, Epoll!TypeOK
<1> QED BY <1>1, <1>2 DEF Epoll!Init, EdgesInv

LEMMA EdgesMeans == EdgesInv => Epoll!TypeOK /\ Epoll!EdgesReported
BY DEF EdgesInv, Epoll!EdgesReported

\* A descriptor is put at the end of the list unless it is there.
LEMMA EdgesQueue ==
  ASSUME NEW f, NEW R, f \in R, NEW p, p = pending, p \in Seq(R),
         \A i, j \in 1..Len(p) : p[i] = p[j] => i = j,
         NEW q, q = IF \E i \in 1..Len(p) : p[i] = f THEN p ELSE Append(p, f)
  PROVE  /\ q \in Seq(R) /\ \A i, j \in 1..Len(q) : q[i] = q[j] => i = j
         /\ \A g : (\E i \in 1..Len(q) : q[i] = g) <=> g = f \/ \E i \in 1..Len(p) : p[i] = g
<1>1. CASE \E i \in 1..Len(p) : p[i] = f
  BY <1>1
<1>2. CASE ~\E i \in 1..Len(p) : p[i] = f
  <2>1. PICK n \in Nat : n = Len(p)
    OBVIOUS
  <2>2. q \in Seq(R) /\ Len(q) = n + 1 /\ q[n + 1] = f /\ \A i \in 1..n : q[i] = p[i]
    BY <1>2, <2>1
  <2>3. n + 1 \in 1..n + 1 /\ 1..n \subseteq 1..n + 1 /\ \A i \in 1..n + 1 : i \in 1..n \/ i = n + 1
    BY <2>1
  <2>4. \A i, j \in 1..n + 1 : q[i] = q[j] => i = j
    BY <1>2, <2>1, <2>2, <2>3
  <2>5. \A g : (\E i \in 1..n + 1 : q[i] = g) <=> g = f \/ \E i \in 1..n : p[i] = g
    BY <2>2, <2>3
  <2> QED BY <2>1, <2>2, <2>4, <2>5
<1> QED BY <1>1, <1>2

LEMMA EdgesCtl ==
  ASSUME EdgesInv, NEW f \in EpollFds, NEW wanted \in {{"Input"}, {"Output"}},
         Epoll!Ctl(f, wanted), registered' = registered \cup {f}
  PROVE  EdgesInv'
<1>1. /\ epoll_asked' = [epoll_asked EXCEPT ![f] = wanted]
      /\ UNCHANGED <<epoll_init_flag, level, events, unheard>>
  BY DEF Epoll!Ctl
<1>2. /\ wanted # {} /\ wanted \in SUBSET Epoll!Events /\ epoll_asked'[f] = wanted
      /\ \A g \in EpollFds : g # f => epoll_asked'[g] = epoll_asked[g]
      /\ epoll_asked' \in [EpollFds -> SUBSET Epoll!Events]
  BY <1>1 DEF EdgesInv, Epoll!TypeOK, Epoll!Events
<1>3. /\ registered' \subseteq EpollFds
      /\ \A g \in EpollFds : g \in registered' <=> epoll_asked'[g] # {}
  BY <1>2 DEF EdgesInv, Epoll!TypeOK
<1>4. \A g \in EpollFds : g # f => Epoll!Holds(g, epoll_asked[g])' = Epoll!Holds(g, epoll_asked[g])
  BY <1>1, <1>2 DEF Epoll!Holds
<1>5. Epoll!Holds(f, epoll_asked[f])' = Epoll!Holds(f, wanted)
  BY <1>1, <1>2 DEF Epoll!Holds
<1>6. pending \in Seq(registered') /\ epoll_owed \subseteq EpollFds
  BY DEF EdgesInv, Epoll!TypeOK
<1>7. CASE Epoll!Holds(f, wanted) # {}
  <2>1. /\ pending' = IF Epoll!Queued(f) THEN pending ELSE Append(pending, f)
        /\ epoll_owed' = epoll_owed \cup {f}
    BY <1>7 DEF Epoll!Ctl
  <2>2. /\ pending' \in Seq(registered')
        /\ \A i, j \in 1..Len(pending') : pending'[i] = pending'[j] => i = j
        /\ \A g : Epoll!Queued(g)' <=> g = f \/ Epoll!Queued(g)
    BY <1>6, <2>1, EdgesQueue DEF EdgesInv, Epoll!Queued
  <2>3. Epoll!TypeOK'
    BY <1>1, <1>2, <1>3, <2>1, <2>2 DEF EdgesInv, Epoll!TypeOK
  <2> QED BY <1>1, <1>3, <1>4, <1>6, <2>1, <2>2, <2>3 DEF EdgesInv
<1>8. CASE Epoll!Holds(f, wanted) = {}
  <2>1. UNCHANGED <<pending, epoll_owed>>
    BY <1>8 DEF Epoll!Ctl
  <2>2. Epoll!TypeOK'
    BY <1>1, <1>2, <1>3, <1>6, <2>1 DEF EdgesInv, Epoll!TypeOK
  <2>3. \A g \in epoll_owed : Epoll!Holds(g, epoll_asked[g])' # {} => Epoll!Queued(g)'
    BY <1>4, <1>5, <1>6, <1>8, <2>1 DEF EdgesInv, Epoll!Queued
  <2> QED BY <1>1, <1>3, <2>1, <2>2, <2>3 DEF EdgesInv
<1> QED BY <1>7, <1>8

LEMMA EdgesListen ==
  ASSUME EdgesInv, Epoll!Listen
  PROVE  EdgesInv'
<1> DEFINE n == IF Len(pending) <= EpollItems THEN Len(pending) ELSE EpollItems
           first == SubSeq(pending, 1, n)
           alive == {f \in EpollFds : Epoll!Holds(f, epoll_asked[f]) # {}}
           got == Epoll!Among(first, alive)
           rest == SubSeq(pending, n + 1, Len(pending))
<1>1. /\ pending' = rest /\ events' = [i \in 1..Len(got) |-> Epoll!Holds(got[i], epoll_asked[got[i]])]
      /\ epoll_owed' = (epoll_owed \ {got[i] : i \in 1..Len(got)}) \ {f \in EpollFds : Epoll!Holds(f, epoll_asked[f]) = {}}
      /\ UNCHANGED <<epoll_init_flag, epoll_asked, registered, level, unheard>>
  BY DEF Epoll!Listen
<1>2. PICK m \in Nat : m = Len(pending)
  BY DEF EdgesInv, Epoll!TypeOK
<1>3. n \in 0..m /\ pending \in Seq(registered) /\ registered \subseteq EpollFds /\ epoll_owed \subseteq registered
  BY <1>2, EpollConstants DEF EdgesInv, Epoll!TypeOK
<1> HIDE DEF n
<1>4. first \in Seq(registered) /\ Len(first) = n /\ \A i \in 1..n : first[i] = pending[i]
  <2>1. n \in Nat /\ 1 \in Nat /\ 1 <= n + 1 /\ n <= Len(pending) /\ n - 1 + 1 = n /\ \A i \in 1..n : 1 + i - 1 = i
    BY <1>2, <1>3
  <2>2. /\ first \in Seq(registered) /\ Len(first) = n - 1 + 1
        /\ \A i \in 1..n - 1 + 1 : first[i] = pending[1 + i - 1]
    BY <1>3, <2>1, PartOf
  <2> QED BY <2>1, <2>2
<1>5. rest \in Seq(registered) /\ Len(rest) = m - n /\ \A i \in 1..m - n : rest[i] = pending[n + i]
  <2>1. n + 1 \in Nat /\ m \in Nat /\ 1 <= n + 1 /\ n + 1 <= m + 1 /\ m <= Len(pending)
        /\ m - (n + 1) + 1 = m - n /\ \A i \in 1..m - n : n + 1 + i - 1 = n + i
    BY <1>2, <1>3
  <2>2. /\ SubSeq(pending, n + 1, m) \in Seq(registered) /\ Len(SubSeq(pending, n + 1, m)) = m - (n + 1) + 1
        /\ \A i \in 1..m - (n + 1) + 1 : SubSeq(pending, n + 1, m)[i] = pending[n + 1 + i - 1]
    BY <1>3, <2>1, PartOf
  <2> QED BY <1>2, <2>1, <2>2
<1> HIDE DEF first, rest, alive
<1>6. Kept(got, first, alive, registered, n)
  BY <1>4, AmongIs
<1> HIDE DEF got
<1>7. /\ got \in Seq(registered) /\ Len(got) \in Nat
      /\ \A j \in 1..Len(got) : got[j] \in alive
      /\ \A i \in 1..n : first[i] \in alive => \E j \in 1..Len(got) : got[j] = first[i]
  BY <1>6 DEF Kept
<1>8. events' \in Seq((SUBSET Epoll!Events) \ {{}})
  <2>1. \A i \in 1..Len(got) : Epoll!Holds(got[i], epoll_asked[got[i]]) \in (SUBSET Epoll!Events) \ {{}}
    BY <1>7 DEF alive, Epoll!Holds, EdgesInv, Epoll!TypeOK
  <2>2. events' \in [1..Len(got) -> (SUBSET Epoll!Events) \ {{}}]
    BY <1>1, <2>1
  <2> QED BY <1>7, <2>2
<1>9. epoll_owed' \subseteq epoll_owed
  BY <1>1
<1>10. Epoll!TypeOK'
  BY <1>1, <1>3, <1>5, <1>8, <1>9 DEF EdgesInv, Epoll!TypeOK
<1>11. \A i, j \in 1..Len(pending') : pending'[i] = pending'[j] => i = j
  <2>1. \A i \in 1..m - n : n + i \in 1..m
    BY <1>3
  <2>2. \A i, j \in 1..m : pending[i] = pending[j] => i = j
    BY <1>2 DEF EdgesInv
  <2>3. \A i, j \in 1..m - n : rest[i] = rest[j] => n + i = n + j
    BY <1>5, <2>1, <2>2
  <2> QED BY <1>1, <1>3, <1>5, <2>3
<1>12. ASSUME NEW f \in epoll_owed', Epoll!Holds(f, epoll_asked[f])' # {}
       PROVE  Epoll!Queued(f)'
  <2>1. Epoll!Holds(f, epoll_asked[f]) # {} /\ f \in epoll_owed /\ f \in alive
    BY <1>1, <1>3, <1>12 DEF Epoll!Holds, alive
  <2>2. PICK i \in 1..m : pending[i] = f
    BY <1>2, <2>1 DEF EdgesInv, Epoll!Queued
  <2>3. i > n
    <3> SUFFICES ASSUME i <= n PROVE FALSE
      BY <1>3
    <3>1. i \in 1..n /\ first[i] = f
      BY <1>3, <1>4, <2>2
    <3>2. f \in {got[j] : j \in 1..Len(got)}
      BY <1>7, <2>1, <3>1
    <3> QED BY <1>1, <1>12, <3>2
  <2>4. i - n \in 1..m - n /\ n + (i - n) = i
    BY <1>3, <2>3
  <2> QED BY <1>1, <1>5, <2>2, <2>4 DEF Epoll!Queued
<1> QED BY <1>1, <1>3, <1>9, <1>10, <1>11, <1>12 DEF EdgesInv

LEMMA EdgesStep ==
  ASSUME EdgesInv, Epoll!Next
  PROVE  EdgesInv'
<1>1. ASSUME NEW f \in EpollFds, NEW wanted \in {{"Input"}, {"Output"}},
             Epoll!AddEvent(f, wanted) \/ Epoll!AddSelectEvent(f, wanted) \/ Epoll!ModEvent(f, wanted) \/ Epoll!ModSelectEvent(f, wanted)
      PROVE  EdgesInv'
  <2>1. Epoll!Ctl(f, wanted) /\ registered' = registered \cup {f}
    BY <1>1 DEF Epoll!AddSelectEvent, Epoll!ModSelectEvent, Epoll!AddEvent, Epoll!ModEvent
  <2> QED BY <2>1, EdgesCtl
<1>2. ASSUME NEW f \in EpollFds, Epoll!DelEvent(f)
      PROVE  EdgesInv'
  <2>1. /\ registered' = registered \ {f} /\ epoll_asked' = [epoll_asked EXCEPT ![f] = {}]
        /\ pending' = Epoll!Among(pending, EpollFds \ {f}) /\ epoll_owed' = epoll_owed \ {f}
        /\ UNCHANGED <<epoll_init_flag, level, events, unheard>>
    BY <1>2 DEF Epoll!DelEvent, Epoll!Remove
  <2>2. pending \in Seq(registered) /\ registered \subseteq EpollFds
    BY DEF EdgesInv, Epoll!TypeOK
  <2>3. Kept(pending', pending, EpollFds \ {f}, registered, Len(pending))
    BY <2>1, <2>2, AmongIs
  <2>4. /\ Len(pending') \in Nat /\ pending' \in Seq(registered)
        /\ \A j \in 1..Len(pending') : pending'[j] \in EpollFds \ {f}
        /\ \A i \in 1..Len(pending) : pending[i] \in EpollFds \ {f} => \E j \in 1..Len(pending') : pending'[j] = pending[i]
        /\ \A i, j \in 1..Len(pending') : pending'[i] = pending'[j] => i = j
    BY <2>3 DEF Kept, EdgesInv
  <2>5. \A j \in 1..Len(pending') : pending'[j] \in registered'
    <3>1. \A j \in 1..Len(pending') : pending'[j] \in registered
      BY <2>4
    <3> QED BY <2>1, <2>4, <3>1
  <2>6. pending' \in Seq(registered')
    BY <2>4, <2>5
  <2>7. Epoll!TypeOK'
    BY <2>1, <2>6 DEF EdgesInv, Epoll!TypeOK
  <2>8. \A g \in epoll_owed' : g \in EpollFds /\ g # f /\ g \in epoll_owed
    BY <2>1, <2>2 DEF EdgesInv
  <2>9. ASSUME NEW g \in epoll_owed', Epoll!Holds(g, epoll_asked[g])' # {}
        PROVE  Epoll!Queued(g)'
    <3>1. Epoll!Holds(g, epoll_asked[g]) # {}
      BY <2>1, <2>8, <2>9 DEF Epoll!Holds, EdgesInv, Epoll!TypeOK
    <3>2. Epoll!Queued(g)
      BY <2>8, <3>1 DEF EdgesInv
    <3> QED BY <2>4, <2>8, <3>2 DEF Epoll!Queued
  <2>10. \A g \in EpollFds : g \in registered' <=> epoll_asked'[g] # {}
    BY <2>1 DEF EdgesInv, Epoll!TypeOK
  <2> QED BY <2>1, <2>4, <2>7, <2>9, <2>10 DEF EdgesInv
<1>3. ASSUME NEW ours \in BOOLEAN, Epoll!Callback(ours)
      PROVE  EdgesInv'
  <2>1. /\ events \in Seq((SUBSET Epoll!Events) \ {{}}) /\ events # <<>> /\ events' = Tail(events)
        /\ UNCHANGED <<epoll_init_flag, epoll_asked, registered, level, pending, epoll_owed>>
        /\ unheard' = unheard \cup (Head(events) \ IF ours THEN Head(events) ELSE Epoll!Default(Head(events)))
    BY <1>3 DEF Epoll!Callback, EdgesInv, Epoll!TypeOK
  <2>2. Head(events) \in SUBSET Epoll!Events /\ events' \in Seq((SUBSET Epoll!Events) \ {{}})
    BY <2>1
  <2>3. Head(events) \subseteq Epoll!Default(Head(events))
    BY <2>2 DEF Epoll!Default, Epoll!Events
  <2>4. unheard' = {}
    BY <2>1, <2>3 DEF EdgesInv
  <2>5. Epoll!TypeOK'
    BY <2>1, <2>2 DEF EdgesInv, Epoll!TypeOK
  <2> QED BY <2>1, <2>4, <2>5 DEF EdgesInv, Epoll!Holds, Epoll!Queued
<1>4. ASSUME NEW f \in EpollFds, NEW e \in Epoll!Events, Epoll!Happens(f, e)
      PROVE  EdgesInv'
  <2>1. /\ level' = [level EXCEPT ![f] = @ \cup {e}]
        /\ UNCHANGED <<epoll_init_flag, epoll_asked, registered, events, unheard>>
    BY <1>4 DEF Epoll!Happens
  <2>2. level' \in [EpollFds -> SUBSET Epoll!Events] /\ pending \in Seq(registered)
        /\ epoll_owed \subseteq registered /\ registered \subseteq EpollFds
    BY <2>1 DEF EdgesInv, Epoll!TypeOK
  <2>3. \A g \in EpollFds : g # f => Epoll!Holds(g, epoll_asked[g])' = Epoll!Holds(g, epoll_asked[g])
    BY <2>1 DEF Epoll!Holds, EdgesInv, Epoll!TypeOK
  <2>4. CASE f \in registered /\ e \in epoll_asked[f] \cup {"Error"}
    <3>1. /\ pending' = IF Epoll!Queued(f) THEN pending ELSE Append(pending, f)
          /\ epoll_owed' = epoll_owed \cup {f}
      BY <1>4, <2>4 DEF Epoll!Happens, EdgesInv
    <3>2. /\ pending' \in Seq(registered)
          /\ \A i, j \in 1..Len(pending') : pending'[i] = pending'[j] => i = j
          /\ \A g : Epoll!Queued(g)' <=> g = f \/ Epoll!Queued(g)
      BY <2>2, <2>4, <3>1, EdgesQueue DEF EdgesInv, Epoll!Queued
    <3>3. Epoll!TypeOK'
      BY <2>1, <2>2, <3>1, <3>2 DEF EdgesInv, Epoll!TypeOK
    <3> QED BY <2>1, <2>2, <2>3, <2>4, <3>1, <3>2, <3>3 DEF EdgesInv
  <2>5. CASE ~(f \in registered /\ e \in epoll_asked[f] \cup {"Error"})
    <3>1. UNCHANGED <<pending, epoll_owed>>
      BY <1>4, <2>5 DEF Epoll!Happens
    <3>2. f \in epoll_owed => Epoll!Holds(f, epoll_asked[f])' = Epoll!Holds(f, epoll_asked[f])
      BY <2>1, <2>2, <2>5 DEF Epoll!Holds, EdgesInv, Epoll!TypeOK
    <3>3. Epoll!TypeOK'
      BY <2>1, <2>2, <3>1 DEF EdgesInv, Epoll!TypeOK
    <3> QED BY <2>1, <2>2, <2>3, <3>1, <3>2, <3>3 DEF EdgesInv, Epoll!Queued
  <2> QED BY <2>4, <2>5
<1>5. ASSUME NEW f \in EpollFds, NEW e \in Epoll!Events, Epoll!Passes(f, e)
      PROVE  EdgesInv'
  <2>1. /\ level' = [level EXCEPT ![f] = @ \ {e}]
        /\ UNCHANGED <<epoll_init_flag, epoll_asked, registered, pending, epoll_owed, events, unheard>>
    BY <1>5 DEF Epoll!Passes
  <2>2. level' \in [EpollFds -> SUBSET Epoll!Events] /\ epoll_owed \subseteq EpollFds
    BY <2>1 DEF EdgesInv, Epoll!TypeOK
  <2>3. \A g \in EpollFds : Epoll!Holds(g, epoll_asked[g])' \subseteq Epoll!Holds(g, epoll_asked[g])
    BY <2>1 DEF Epoll!Holds, EdgesInv, Epoll!TypeOK
  <2>4. Epoll!TypeOK'
    BY <2>1, <2>2 DEF EdgesInv, Epoll!TypeOK
  <2> QED BY <2>1, <2>2, <2>3, <2>4 DEF EdgesInv, Epoll!Queued
<1> QED BY <1>1, <1>2, <1>3, <1>4, <1>5, EdgesListen DEF Epoll!Next

LEMMA EdgesIdle == EdgesInv /\ UNCHANGED epoll_vars => EdgesInv'
BY DEF EdgesInv, Epoll!TypeOK, epoll_vars, Epoll!Holds, Epoll!Queued


-----------------------------------------------------------------------------
(***************************************************************************)
(* Multicast groups of a socket.                                           *)
(***************************************************************************)
LEMMA MulticastConstants == MultiDefault \in MultiIfaces /\ MultiMembers \in Nat
BY PartsAssumption





MulticastInv ==
  /\ Multi!TypeOK
  /\ \A i \in 1..Len(joined) : replaced \/ (Multi!paddr.multicast_flag_ /\ joined[i].domain_ = Multi!paddr.domain_)
  /\ \A i, j \in 1..Len(joined) : joined[i] = joined[j] => i = j
  /\ multi_init_flag \/ (joined = <<>> /\ Multi!Fresh)
  /\ family = "INET" => ttl = [ttl EXCEPT !["INET6"] = "default"] /\ loop["INET6"]
  /\ ttl \in [Multi!Domains -> {"default", "given"}]

LEMMA MulticastStart == Multi!Init => MulticastInv
<1> SUFFICES ASSUME Multi!Init PROVE MulticastInv
  OBVIOUS
<1>1. joined = <<>> /\ joined \in Seq([domain_ : Multi!Domains, group : MultiGroups, iface : MultiIfaces])
  BY DEF Multi!Init
<1>2. Multi!TypeOK
  BY <1>1, MulticastConstants DEF Multi!Init, Multi!TypeOK, Multi!Fresh, Multi!Each
<1> QED BY <1>1, <1>2 DEF Multi!Init, MulticastInv, Multi!Fresh, Multi!Each, Multi!Domains

LEMMA MulticastMeans == MulticastInv => Multi!TypeOK /\ Multi!CanLeave
<1> SUFFICES ASSUME MulticastInv PROVE Multi!CanLeave
  BY DEF MulticastInv
<1>1. joined \in Seq([domain_ : Multi!Domains, group : MultiGroups, iface : MultiIfaces])
  BY DEF MulticastInv, Multi!TypeOK
<1>2. Multi!ToSet(joined) = {joined[i] : i \in 1..Len(joined)} /\ DOMAIN joined = 1..Len(joined)
  BY <1>1 DEF Multi!ToSet
<1>3. Multi!IsInjective(joined)
  BY <1>2 DEF Multi!IsInjective, MulticastInv
<1>4. family = "INET" => ttl["INET6"] = "default" /\ loop["INET6"]
  BY DEF MulticastInv, Multi!Domains
<1> QED BY <1>2, <1>3, <1>4 DEF MulticastInv, Multi!CanLeave

LEMMA MulticastUsable ==
  ASSUME MulticastInv, Multi!Supported
  PROVE  /\ Multi!paddr.multicast_flag_ /\ Multi!paddr.domain_ \in Multi!Domains
         /\ Multi!paddr \in Multi!Addrs
         /\ family = "INET" => Multi!paddr.domain_ = "INET"
<1>1. Multi!paddr \in Multi!Addrs \cup {Multi!NoAddr} /\ Multi!paddr.multicast_flag_
  BY DEF MulticastInv, Multi!TypeOK, Multi!Supported, Multi!isMulitcastFD, Multi!paddr
<1>2. Multi!paddr \in Multi!Addrs
  BY <1>1 DEF Multi!NoAddr
<1>3. Multi!paddr.domain_ \in Multi!Domains
  BY <1>2 DEF Multi!Addrs
<1> QED BY <1>1, <1>2, <1>3 DEF Multi!Supported, Multi!Domains

LEMMA MulticastEnter ==
  ASSUME MulticastInv, Multi!Supported, NEW group \in MultiGroups, NEW iface \in MultiIfaces, Multi!Enter(group, iface)
  PROVE  MulticastInv'
<1> DEFINE M == [domain_ : Multi!Domains, group : MultiGroups, iface : MultiIfaces]
           m == Multi!Membership(group, iface)
<1>1. m \in M /\ m.domain_ = Multi!paddr.domain_
  BY MulticastUsable DEF Multi!Membership
<1> HIDE DEF m
<1>2. joined \in Seq(M) /\ <<m>> \in Seq(M) /\ Len(<<m>>) = 1 /\ <<m>>[1] = m /\ Len(joined) \in Nat
  BY <1>1 DEF MulticastInv, Multi!TypeOK
<1>3. /\ <<m>> \o joined \in Seq(M) /\ Len(<<m>> \o joined) = Len(<<m>>) + Len(joined)
      /\ \A i \in 1..Len(<<m>>) + Len(joined) :
           (<<m>> \o joined)[i] = IF i <= Len(<<m>>) THEN <<m>>[i] ELSE joined[i - Len(<<m>>)]
  BY <1>2, ConcatProperties
<1>4. joined' = <<m>> \o joined /\ m \notin Multi!ToSet(joined) /\ replaced' = (replaced /\ joined # <<>>)
      /\ UNCHANGED <<multi_init_flag, family, multi_orig, multi_dest, Multi!options>>
  BY DEF Multi!Enter, m
<1>5. PICK n \in Nat : n = Len(joined)
  BY <1>2
<1>6. /\ joined' \in Seq(M) /\ Len(joined') = n + 1
      /\ \A i \in 1..n + 1 : joined'[i] = IF i = 1 THEN m ELSE joined[i - 1]
  BY <1>2, <1>3, <1>4, <1>5
<1>7. \A i \in 1..n : joined[i] # m
  BY <1>2, <1>4, <1>5 DEF Multi!ToSet
<1>8. Multi!paddr' = Multi!paddr
  BY <1>4 DEF Multi!paddr
<1>9. Multi!TypeOK'
  BY <1>4, <1>6 DEF MulticastInv, Multi!TypeOK, Multi!options
<1>10. \A i \in 1..n + 1 : replaced' \/ (Multi!paddr.multicast_flag_ /\ joined'[i].domain_ = Multi!paddr.domain_)
  <2> SUFFICES ASSUME NEW i \in 1..n + 1, ~replaced'
               PROVE  Multi!paddr.multicast_flag_ /\ joined'[i].domain_ = Multi!paddr.domain_
    OBVIOUS
  <2>1. CASE i = 1
    BY <2>1, <1>1, <1>6, MulticastUsable
  <2>2. CASE i # 1
    <3>1. PICK j \in 1..n : j = i - 1
      BY <2>2
    <3>2. joined # <<>>
      BY <3>1, <1>5
    <3>3. ~replaced
      BY <3>2, <1>4
    <3>4. joined'[i] = joined[j] /\ j \in 1..Len(joined)
      BY <3>1, <2>2, <1>5, <1>6
    <3> QED BY <3>3, <3>4 DEF MulticastInv
  <2> QED BY <2>1, <2>2
<1>11. \A i, j \in 1..n + 1 : joined'[i] = joined'[j] => i = j
  <2>1. \A i, j \in 1..n : joined[i] = joined[j] => i = j
    BY <1>5 DEF MulticastInv
  <2> QED BY <2>1, <1>6, <1>7
<1> QED BY <1>4, <1>6, <1>8, <1>9, <1>10, <1>11
        DEF MulticastInv, Multi!options, Multi!Supported

LEMMA MulticastLeave ==
  ASSUME MulticastInv, NEW group \in MultiGroups, Multi!SetMcastLeave(group)
  PROVE  MulticastInv'
<1> DEFINE M == [domain_ : Multi!Domains, group : MultiGroups, iface : MultiIfaces]
<1>1. joined \in Seq(M) /\ Len(joined) \in Nat
  BY DEF MulticastInv, Multi!TypeOK
<1>2. PICK i \in 1..Len(joined) : joined' = Multi!RemoveAt(joined, i)
  <2> DEFINE Is(m) == m.domain_ = Multi!paddr.domain_ /\ m.group = group
             I == {k \in 1..Len(joined) : Is(joined[k])}
  <2>1. Multi!SelectInSeq(joined, Is) = IF I # {} THEN Multi!Min(I) ELSE 0
    BY DEF Multi!SelectInSeq
  <2>2. Multi!SelectInSeq(joined, Is) > 0 /\ joined' = Multi!RemoveAt(joined, Multi!SelectInSeq(joined, Is))
    BY DEF Multi!SetMcastLeave
  <2>3. I # {}
    BY <2>1, <2>2
  <2>4. I \subseteq Nat
    BY <1>1
  <2>5. \E k \in I : \A j \in I : k <= j
    BY <2>3, <2>4, LeastNumber
  <2>6. Multi!Min(I) \in I
    BY <2>5 DEF Multi!Min
  <2> QED BY <2>1, <2>2, <2>3, <2>6
<1>3. UNCHANGED <<multi_init_flag, family, multi_orig, multi_dest, Multi!options, replaced>> /\ multi_init_flag
  BY DEF Multi!SetMcastLeave, Multi!Supported
<1>4. PICK n \in Nat : n = Len(joined)
  BY <1>1
<1>5. /\ joined' \in Seq(M) /\ Len(joined') = n - 1
      /\ \A j \in 1..n - 1 : joined'[j] = IF j < i THEN joined[j] ELSE joined[j + 1]
  <2>1. joined' = SubSeq(joined, 1, i - 1) \o SubSeq(joined, i + 1, Len(joined))
    BY <1>2 DEF Multi!RemoveAt
  <2>2. /\ joined' \in Seq(M) /\ Len(joined') = Len(joined) - 1
        /\ \A j \in 1..Len(joined) - 1 : joined'[j] = IF j < i THEN joined[j] ELSE joined[j + 1]
    <3> HIDE DEF M
    <3> QED BY <1>1, <2>1, WithoutOne
  <2> QED BY <1>4, <2>2
<1>6. \A j \in 1..n - 1 : j \in 1..n /\ j + 1 \in 1..n
  OBVIOUS
<1>7. i \in 1..n
  BY <1>4
<1>8. Multi!TypeOK'
  BY <1>3, <1>5 DEF MulticastInv, Multi!TypeOK, Multi!options
<1>9. \A j, k \in 1..n - 1 : joined'[j] = joined'[k] => j = k
  <2>1. \A j, k \in 1..n : joined[j] = joined[k] => j = k
    BY <1>4 DEF MulticastInv
  <2> SUFFICES ASSUME NEW j \in 1..n - 1, NEW k \in 1..n - 1, joined'[j] = joined'[k]
               PROVE  j = k
    OBVIOUS
  <2>2. j \in 1..n /\ j + 1 \in 1..n /\ k \in 1..n /\ k + 1 \in 1..n
    BY <1>6
  <2>3. joined[IF j < i THEN j ELSE j + 1] = joined[IF k < i THEN k ELSE k + 1]
    BY <1>5
  <2>4. (IF j < i THEN j ELSE j + 1) = (IF k < i THEN k ELSE k + 1)
    BY <2>1, <2>2, <2>3
  <2> QED BY <2>2, <2>4, <1>7
<1>10. \A j \in 1..n - 1 : replaced \/ (Multi!paddr.multicast_flag_ /\ joined'[j].domain_ = Multi!paddr.domain_)
  <2> SUFFICES ASSUME NEW j \in 1..n - 1, ~replaced
               PROVE  Multi!paddr.multicast_flag_ /\ joined'[j].domain_ = Multi!paddr.domain_
    OBVIOUS
  <2>1. PICK k \in 1..n : joined'[j] = joined[k]
    BY <1>5, <1>6
  <2> QED BY <2>1, <1>4 DEF MulticastInv
<1>11. Multi!paddr' = Multi!paddr
  BY <1>3 DEF Multi!paddr
<1> QED BY <1>3, <1>5, <1>8, <1>9, <1>10, <1>11 DEF MulticastInv, Multi!options

LEMMA MulticastStep ==
  ASSUME MulticastInv, Multi!Next
  PROVE  MulticastInv'
<1>1. ASSUME NEW group \in MultiGroups, Multi!SetMcastJoin(group)
      PROVE  MulticastInv'
  BY <1>1, MulticastEnter, MulticastConstants DEF Multi!SetMcastJoin
<1>2. ASSUME NEW group \in MultiGroups, NEW iface \in MultiIfaces, Multi!SetMcastJoinOn(group, iface)
      PROVE  MulticastInv'
  BY <1>2, MulticastEnter DEF Multi!SetMcastJoinOn
<1>3. ASSUME NEW iface \in MultiIfaces, Multi!SetMcastInterface(iface)
      PROVE  MulticastInv'
  BY <1>3, MulticastUsable DEF Multi!SetMcastInterface, MulticastInv, Multi!TypeOK, Multi!paddr, Multi!Supported
<1>4. CASE Multi!SetMcastTTL
  <2>1. /\ ttl' = [ttl EXCEPT ![Multi!paddr.domain_] = "given"] /\ Multi!Supported
        /\ UNCHANGED <<multi_init_flag, family, multi_orig, multi_dest, joined, multi_out, loop, replaced>>
    BY <1>4 DEF Multi!SetMcastTTL
  <2>2. family = "INET" => ttl' = [ttl' EXCEPT !["INET6"] = "default"]
    BY <2>1, MulticastUsable DEF MulticastInv, Multi!Domains
  <2> QED BY <2>1, <2>2, MulticastUsable DEF MulticastInv, Multi!TypeOK, Multi!paddr, Multi!Supported
<1>5. ASSUME NEW flag \in BOOLEAN, Multi!SetMcastloop(flag)
      PROVE  MulticastInv'
  BY <1>5, MulticastUsable
     DEF Multi!SetMcastloop, MulticastInv, Multi!TypeOK, Multi!paddr, Multi!Supported, Multi!Domains
<1>6. CASE Multi!SetAddress
  <2>1. multi_orig' \in Multi!Addrs \cup {Multi!NoAddr} /\ multi_dest' \in Multi!Addrs \cup {Multi!NoAddr} /\ replaced' = (joined # <<>>)
        /\ UNCHANGED <<multi_init_flag, family, joined, Multi!options>>
    BY <1>6 DEF Multi!SetAddress, MulticastInv, Multi!TypeOK
  <2>2. Multi!TypeOK' /\ replaced' \in BOOLEAN
    BY <2>1 DEF MulticastInv, Multi!TypeOK, Multi!options
  <2>3. joined = <<>> => Len(joined) = 0
    OBVIOUS
  <2>4. ASSUME NEW i \in 1..Len(joined') PROVE replaced'
    <3>1. Len(joined) # 0
      BY <2>1, <2>4
    <3> QED BY <2>1, <2>3, <3>1
  <2>5. Multi!Fresh => Multi!Fresh'
    BY <2>1 DEF Multi!Fresh, Multi!options
  <2> QED BY <2>1, <2>2, <2>4, <2>5 DEF MulticastInv, Multi!options
<1>7. CASE Multi!Close
  <2>1. joined' = <<>> /\ joined' \in Seq([domain_ : Multi!Domains, group : MultiGroups, iface : MultiIfaces])
        /\ Len(joined') = 0
    BY <1>7 DEF Multi!Close
  <2>2. multi_out' = Multi!Each(MultiDefault) /\ ttl' = Multi!Each("default") /\ loop' = Multi!Each(TRUE)
    BY <1>7 DEF Multi!Close
  <2>3. Multi!TypeOK'
    <3>1. multi_out' \in [Multi!Domains -> MultiIfaces] /\ loop' \in [Multi!Domains -> BOOLEAN]
      BY <2>2, MulticastConstants DEF Multi!Each
    <3>2. multi_init_flag' \in BOOLEAN /\ replaced' \in BOOLEAN /\ UNCHANGED <<family, multi_orig, multi_dest>>
      BY <1>7 DEF Multi!Close
    <3> QED BY <2>1, <3>1, <3>2 DEF MulticastInv, Multi!TypeOK
  <2>4. ttl' = [ttl' EXCEPT !["INET6"] = "default"] /\ loop'["INET6"]
        /\ ttl' \in [Multi!Domains -> {"default", "given"}] /\ Multi!Fresh'
    BY <2>2 DEF Multi!Each, Multi!Domains, Multi!Fresh
  <2> QED BY <2>1, <2>3, <2>4 DEF MulticastInv
<1>8. CASE Multi!SetFD
  <2>1. /\ joined' = <<>> /\ family' \in Multi!Domains /\ multi_init_flag' = TRUE
        /\ UNCHANGED <<multi_orig, multi_dest, joined, Multi!options, replaced>> /\ Multi!Fresh
    BY <1>8 DEF Multi!SetFD, MulticastInv
  <2>2. Multi!TypeOK' /\ Len(joined') = 0
    BY <2>1 DEF MulticastInv, Multi!TypeOK, Multi!options
  <2>3. ttl' = [ttl' EXCEPT !["INET6"] = "default"] /\ loop'["INET6"]
        /\ ttl' \in [Multi!Domains -> {"default", "given"}]
    BY <2>1 DEF Multi!Each, Multi!Domains, Multi!Fresh, Multi!options
  <2> QED BY <2>1, <2>2, <2>3 DEF MulticastInv
<1> QED BY <1>1, <1>2, <1>3, <1>4, <1>5, <1>6, <1>7, <1>8, MulticastLeave DEF Multi!Next

LEMMA MulticastIdle == MulticastInv /\ UNCHANGED multi_vars => MulticastInv'
<1> SUFFICES ASSUME MulticastInv, UNCHANGED multi_vars PROVE MulticastInv'
  OBVIOUS
<1>1. UNCHANGED <<multi_init_flag, family, multi_orig, multi_dest, joined, multi_out, ttl, loop, replaced>>
  BY DEF multi_vars, Multi!options
<1>2. Multi!TypeOK' /\ Multi!paddr' = Multi!paddr /\ (Multi!Fresh => Multi!Fresh')
  BY <1>1 DEF MulticastInv, Multi!TypeOK, Multi!Fresh, Multi!paddr
<1> QED BY <1>1, <1>2 DEF MulticastInv


-----------------------------------------------------------------------------
(***************************************************************************)
(* A transfer between two sockets.                                         *)
(***************************************************************************)
LEMMA TransferConstants == {XferItems, XferRoom, XferLen, XferLost} \subseteq Nat
BY PartsAssumption

TransferInv ==
  /\ Xfer!TypeOK /\ xfer_sent \in Seq(Xfer!Items) /\ buffers \in Nat /\ nothing = buffers
  /\ \A i \in 1..Len(xfer_received) :
       /\ i <= Len(xfer_sent)
       /\ xfer_received[i] = "fd" => xfer_sent[i] = "fd"
       /\ xfer_received[i] = "garbage" => xfer_sent[i] = "data"
  /\ xfer_init_flag =>
       /\ Len(xfer_received) + Len(xfer_in) = Len(xfer_sent)
       /\ \A j \in 1..Len(xfer_in) : xfer_in[j] = xfer_sent[Len(xfer_received) + j]
  /\ ~xfer_init_flag => xfer_in = <<>>

LEMMA TransferStart == Xfer!Init => TransferInv
<1> SUFFICES ASSUME Xfer!Init PROVE TransferInv
  OBVIOUS
<1>1. xfer_in = <<>> /\ xfer_sent = <<>> /\ xfer_received = <<>> /\ xfer_out = 0 /\ buffers = 0 /\ nothing = 0 /\ xfer_init_flag
  BY DEF Xfer!Init
<1>2. Xfer!TypeOK
  <2>1. <<>> \in Seq(Xfer!Items) /\ <<>> \in Seq(Xfer!Items \cup {"garbage"}) /\ 0 \in 0..XferRoom
    BY TransferConstants
  <2> QED BY <1>1, <2>1 DEF Xfer!Init, Xfer!TypeOK
<1> QED BY <1>1, <1>2 DEF TransferInv

LEMMA TransferMeans == TransferInv => Xfer!TypeOK /\ Xfer!TransferSound
BY DEF TransferInv, Xfer!TransferSound


LEMMA TransferTakes ==
  ASSUME Xfer!TypeOK, xfer_in # <<>>, NEW n \in Nat, n > 0
  PROVE  Xfer!Taken(n) \in 1..Len(xfer_in)
<1> DEFINE fds == {i \in 1..Len(xfer_in) : xfer_in[i] = "fd"}
<1>1. Len(xfer_in) \in Nat /\ Len(xfer_in) > 0
  BY DEF Xfer!TypeOK
<1>2. CASE fds = {}
  BY <1>1, <1>2 DEF Xfer!Taken
<1>3. CASE fds # {}
  <2>1. fds \subseteq Nat
    OBVIOUS
  <2>2. \E i \in fds : \A j \in fds : i <= j
    BY <1>3, <2>1, LeastNumber
  <2>3. (CHOOSE i \in fds : \A j \in fds : i <= j) \in fds
    BY <2>2
  <2> QED BY <1>1, <2>3 DEF Xfer!Taken
<1> QED BY <1>2, <1>3

LEMMA TransferReceives ==
  ASSUME TransferInv, xfer_init_flag, NEW n \in Nat, n > 0, NEW ctrl \in BOOLEAN, Xfer!_recv(n, ctrl)
  PROVE  TransferInv'
<1>1. CASE Xfer!GetsNothing /\ buffers' = (IF Xfer!KeepsBuffer(~ctrl) THEN buffers + 1 ELSE buffers)
           /\ nothing' = (IF ctrl THEN nothing ELSE nothing + 1)
           /\ UNCHANGED <<Xfer!object, xfer_init_flag, peer, Xfer!modes, xfer_in, xfer_out, xfer_sent, xfer_received>>
  BY <1>1 DEF TransferInv, Xfer!TypeOK, Xfer!object, Xfer!modes, Xfer!KeepsBuffer
<1>2. CASE /\ xfer_in # <<>>
           /\ xfer_received' = xfer_received \o Xfer!Seen(SubSeq(xfer_in, 1, Xfer!Taken(n)), ctrl)
           /\ xfer_in' = SubSeq(xfer_in, Xfer!Taken(n) + 1, Len(xfer_in))
           /\ UNCHANGED <<Xfer!object, xfer_init_flag, peer, Xfer!modes, xfer_out, xfer_sent, buffers, nothing>>
  <2> USE DEF TransferInv
  <2>1. PICK k \in 1..Len(xfer_in) : k = Xfer!Taken(n)
    BY <1>2, TransferTakes
  <2>2. PICK m \in Nat : m = Len(xfer_in)
    BY DEF Xfer!TypeOK
  <2>3. PICK r \in Nat : r = Len(xfer_received)
    BY DEF Xfer!TypeOK
  <2>4. xfer_in \in Seq(Xfer!Items) /\ xfer_received \in Seq(Xfer!Items \cup {"garbage"}) /\ k \in 1..m /\ k \in Int
    BY <2>1, <2>2 DEF Xfer!TypeOK
  <2>5. \A i \in 1..m : xfer_in[i] \in Xfer!Items
    BY <2>2, <2>4
  <2> DEFINE old == SubSeq(xfer_in, 1, k)
             new == SubSeq(xfer_in, k + 1, m)
             seen == Xfer!Seen(old, ctrl)
  <2>6. old \in Seq(Xfer!Items) /\ Len(old) = k /\ \A i \in 1..k : old[i] = xfer_in[i]
    <3>1. \A i \in 1..k : xfer_in[i] \in Xfer!Items /\ 1 + i - 1 = i
      BY <2>4, <2>5
    <3>2. /\ old \in Seq(Xfer!Items)
          /\ Len(old) = IF 1 <= k THEN k - 1 + 1 ELSE 0
          /\ \A i \in 1..k - 1 + 1 : old[i] = xfer_in[1 + i - 1]
      BY <2>4, <3>1, SubSeqProperties
    <3> QED BY <2>4, <3>1, <3>2
  <2>7. new \in Seq(Xfer!Items) /\ Len(new) = m - k /\ \A i \in 1..m - k : new[i] = xfer_in[k + i]
    <3>1. (\A i \in k + 1..m : xfer_in[i] \in Xfer!Items) /\ \A i \in 1..m - k : k + 1 + i - 1 = k + i
      BY <2>4, <2>5
    <3>2. /\ new \in Seq(Xfer!Items)
          /\ Len(new) = IF k + 1 <= m THEN m - (k + 1) + 1 ELSE 0
          /\ \A i \in 1..m - (k + 1) + 1 : new[i] = xfer_in[k + 1 + i - 1]
      BY <2>4, <3>1, SubSeqProperties
    <3> QED BY <2>4, <3>1, <3>2
  <2>8. /\ seen \in Seq(Xfer!Items \cup {"garbage"}) /\ Len(seen) = k
        /\ \A i \in 1..k : (seen[i] = "fd" => xfer_in[i] = "fd") /\ (seen[i] = "garbage" => xfer_in[i] = "data")
    <3>1. seen = [i \in 1..k |-> IF ctrl /\ old[i] # "fd" THEN "garbage" ELSE IF ctrl THEN "fd" ELSE "data"]
      BY <2>6 DEF Xfer!Seen
    <3>2. seen \in [1..k -> Xfer!Items \cup {"garbage"}]
      BY <3>1 DEF Xfer!Items
    <3>3. seen \in Seq(Xfer!Items \cup {"garbage"}) /\ Len(seen) = k
      BY <3>2, <2>4
    <3> QED BY <3>1, <3>3, <2>4, <2>5, <2>6 DEF Xfer!Items
  <2> HIDE DEF old, new, seen
  <2>9. xfer_received' = xfer_received \o seen /\ xfer_in' = new /\ xfer_sent' = xfer_sent /\ xfer_init_flag' = xfer_init_flag
        /\ buffers' = buffers /\ nothing' = nothing
    BY <1>2, <2>1, <2>2 DEF old, new, seen
  <2>10. /\ xfer_received' \in Seq(Xfer!Items \cup {"garbage"}) /\ Len(xfer_received') = r + k
         /\ \A i \in 1..r + k : xfer_received'[i] = IF i <= r THEN xfer_received[i] ELSE seen[i - r]
    <3>1. /\ xfer_received \o seen \in Seq(Xfer!Items \cup {"garbage"})
          /\ Len(xfer_received \o seen) = Len(xfer_received) + Len(seen)
          /\ \A i \in 1..Len(xfer_received) + Len(seen) :
               (xfer_received \o seen)[i] = IF i <= Len(xfer_received) THEN xfer_received[i] ELSE seen[i - Len(xfer_received)]
      <4>1. xfer_received \in Seq(Xfer!Items \cup {"garbage"}) /\ seen \in Seq(Xfer!Items \cup {"garbage"})
        BY <2>4, <2>8
      <4> QED BY <4>1, ConcatProperties
    <3> QED BY <2>3, <2>8, <2>9, <3>1
  <2>11. Xfer!TypeOK'
    BY <1>2, <2>7, <2>9, <2>10 DEF Xfer!TypeOK, Xfer!object, Xfer!modes
  <2>12. r + m = Len(xfer_sent) /\ \A j \in 1..m : xfer_in[j] = xfer_sent[r + j]
    BY <2>2, <2>3
  <2>13. \A i \in 1..r + k :
           /\ i <= Len(xfer_sent)
           /\ xfer_received'[i] = "fd" => xfer_sent[i] = "fd"
           /\ xfer_received'[i] = "garbage" => xfer_sent[i] = "data"
    <3> TAKE i \in 1..r + k
    <3>1. CASE i <= r
      BY <3>1, <2>3, <2>4, <2>10, <2>12
    <3>2. CASE i > r
      <4>1. PICK j \in 1..k : j = i - r
        <5>1. i \in Int /\ r \in Int /\ k \in Int /\ 1 <= i /\ i <= r + k /\ i > r
          BY <3>2, <2>4
        <5> QED BY <5>1
      <4>2. i = r + j /\ xfer_received'[i] = seen[j] /\ j \in 1..m
        BY <4>1, <3>2, <2>3, <2>4, <2>10
      <4> QED BY <4>1, <4>2, <2>8, <2>12, <2>3, <2>4
    <3> QED BY <3>1, <3>2
  <2>14. r + k + (m - k) = r + m /\ \A j \in 1..m - k : new[j] = xfer_sent[r + k + j]
    <3> SUFFICES ASSUME NEW j \in 1..m - k PROVE new[j] = xfer_sent[r + k + j]
      BY <2>4, <2>3
    <3>1. k + j \in 1..m /\ r + (k + j) = r + k + j
      BY <2>4, <2>3
    <3> QED BY <3>1, <2>7, <2>12
  <2> QED BY <2>7, <2>9, <2>10, <2>11, <2>12, <2>13, <2>14
<1> QED BY <1>1, <1>2 DEF Xfer!_recv

LEMMA TransferSends ==
  ASSUME TransferInv, NEW n \in Nat, Xfer!_send(n)
  PROVE  TransferInv'
<1>1. XferRoom \in Nat /\ xfer_out' \in 0..XferRoom
  BY TransferConstants DEF Xfer!_send, TransferInv, Xfer!TypeOK
<1> QED BY <1>1 DEF Xfer!_send, TransferInv, Xfer!TypeOK, Xfer!object, Xfer!modes

LEMMA TransferStep ==
  ASSUME TransferInv, Xfer!Next
  PROVE  TransferInv'
<1>0. \A n \in 1..XferLen : n \in Nat /\ n > 0 /\ Xfer!Data(n) \in Nat
  BY TransferConstants DEF Xfer!Data
<1>1. ASSUME NEW overtime \in BOOLEAN, Xfer!SetSendBlock(overtime) \/ Xfer!SetRecvBlock(overtime)
      PROVE  TransferInv'
  BY <1>1
     DEF Xfer!SetSendBlock, Xfer!SetRecvBlock, Xfer!SetFlags, TransferInv, Xfer!TypeOK, Xfer!object, Xfer!modes
<1>2. CASE Xfer!SetNonBlock
  BY <1>2 DEF Xfer!SetNonBlock, Xfer!SetFlags, TransferInv, Xfer!TypeOK, Xfer!object, Xfer!modes
<1>3. ASSUME NEW n \in 1..XferLen, NEW given \in BOOLEAN, Xfer!Write(n) \/ Xfer!Send(given, n)
      PROVE  TransferInv'
  BY <1>0, <1>3, TransferSends DEF Xfer!Write, Xfer!Send
<1>4. ASSUME NEW n \in 1..XferLen, Xfer!Read(n) \/ Xfer!Recv(n)
      PROVE  TransferInv'
  BY <1>0, <1>4, TransferReceives DEF Xfer!Read, Xfer!Recv
<1>5. CASE Xfer!SendFD
  BY <1>5, TransferSends DEF Xfer!SendFD
<1>6. CASE Xfer!RecvFD
  BY <1>6, TransferReceives, 1 \in Nat /\ 1 > 0 /\ TRUE \in BOOLEAN DEF Xfer!RecvFD
<1>7. CASE Xfer!Close
  <2>1. xfer_in' = <<>> /\ xfer_init_flag' = FALSE /\ Xfer!TypeOK'
    <3>1. <<>> \in Seq(Xfer!Items)
      OBVIOUS
    <3> QED BY <1>7, <3>1 DEF Xfer!Close, TransferInv, Xfer!TypeOK, Xfer!object, Xfer!modes
  <2> QED BY <1>7, <2>1 DEF Xfer!Close, TransferInv, Xfer!object, Xfer!modes
<1>8. ASSUME NEW item \in Xfer!Items, Xfer!PeerSends(item)
      PROVE  TransferInv'
  <2>1. xfer_in' = Append(xfer_in, item) /\ xfer_sent' = Append(xfer_sent, item) /\ xfer_received' = xfer_received
        /\ xfer_init_flag /\ xfer_init_flag' = xfer_init_flag
    BY <1>8 DEF Xfer!PeerSends
  <2>2. Xfer!TypeOK' /\ xfer_sent' \in Seq(Xfer!Items)
    BY <1>8, <2>1 DEF Xfer!PeerSends, TransferInv, Xfer!TypeOK, Xfer!object, Xfer!modes
  <2>3. xfer_in \in Seq(Xfer!Items) /\ xfer_sent \in Seq(Xfer!Items) /\ Len(xfer_received) \in Nat
    BY DEF TransferInv, Xfer!TypeOK
  <2>4. Len(xfer_sent') = Len(xfer_sent) + 1 /\ Len(xfer_in') = Len(xfer_in) + 1
        /\ \A i \in 1..Len(xfer_sent) : xfer_sent'[i] = xfer_sent[i]
    BY <2>1, <2>3
  <2>5. Len(xfer_received) + Len(xfer_in) = Len(xfer_sent) /\ \A j \in 1..Len(xfer_in) : xfer_in[j] = xfer_sent[Len(xfer_received) + j]
    BY <2>1 DEF TransferInv
  <2>6. \A j \in 1..Len(xfer_in') : xfer_in'[j] = xfer_sent'[Len(xfer_received) + j]
    <3> SUFFICES ASSUME NEW j \in 1..Len(xfer_in') PROVE xfer_in'[j] = xfer_sent'[Len(xfer_received) + j]
      OBVIOUS
    <3>1. CASE j <= Len(xfer_in)
      <4>1. j \in 1..Len(xfer_in) /\ Len(xfer_received) + j \in 1..Len(xfer_sent)
        BY <3>1, <2>3, <2>4, <2>5
      <4>2. xfer_in'[j] = xfer_in[j] /\ xfer_sent'[Len(xfer_received) + j] = xfer_sent[Len(xfer_received) + j]
        BY <4>1, <2>1, <2>3, <2>4
      <4> QED BY <4>1, <4>2, <2>5
    <3>2. CASE j > Len(xfer_in)
      <4>1. j = Len(xfer_in) + 1 /\ Len(xfer_received) + j = Len(xfer_sent) + 1
        BY <3>2, <2>3, <2>4, <2>5
      <4> QED BY <4>1, <2>1, <2>3
    <3> QED BY <3>1, <3>2, <2>3
  <2>7. buffers' \in Nat /\ nothing' = buffers'
    BY <1>8 DEF Xfer!PeerSends, TransferInv
  <2>8. \A i \in 1..Len(xfer_received') :
          /\ i <= Len(xfer_sent')
          /\ xfer_received'[i] = "fd" => xfer_sent'[i] = "fd"
          /\ xfer_received'[i] = "garbage" => xfer_sent'[i] = "data"
    BY <2>1, <2>3, <2>4 DEF TransferInv
  <2>9. Len(xfer_received') + Len(xfer_in') = Len(xfer_sent')
    BY <2>1, <2>3, <2>4, <2>5
  <2> QED BY <2>1, <2>2, <2>6, <2>7, <2>8, <2>9 DEF TransferInv
<1>9. CASE Xfer!PeerTakes \/ Xfer!PeerCloses
  <2>1. xfer_out' \in 0..XferRoom
    BY <1>9, TransferConstants DEF Xfer!PeerTakes, Xfer!PeerCloses, TransferInv, Xfer!TypeOK
  <2>2. UNCHANGED <<Xfer!object, xfer_init_flag, Xfer!modes, xfer_in, xfer_sent, xfer_received, buffers, nothing>> /\ peer' \in BOOLEAN
    BY <1>9 DEF Xfer!PeerTakes, Xfer!PeerCloses, TransferInv, Xfer!TypeOK
  <2>3. Xfer!TypeOK'
    BY <2>1, <2>2 DEF TransferInv, Xfer!TypeOK, Xfer!object, Xfer!modes
  <2> QED BY <2>2, <2>3 DEF TransferInv, Xfer!object, Xfer!modes
<1> QED BY <1>1, <1>2, <1>3, <1>4, <1>5, <1>6, <1>7, <1>8, <1>9 DEF Xfer!Next

LEMMA TransferIdle == TransferInv /\ UNCHANGED transfer_vars => TransferInv'
BY DEF TransferInv, Xfer!TypeOK, transfer_vars, Xfer!object, Xfer!modes

-----------------------------------------------------------------------------
(***************************************************************************)
(* The parts together: one of them runs, and which one does not change.    *)
(***************************************************************************)
ModelsInv == (which = "multiton" => MultitonInv) /\ (which = "efsm" => MachineInv)

LEMMA ModelsHold == PartsSpec => []ModelsInv
<1>1. PartsInit => ModelsInv
  BY MultitonStart, MachineStart, PartsAssumption DEF PartsInit, ModelsInv
<1>2. ASSUME ModelsInv, PartsNext
      PROVE  ModelsInv'
  BY <1>2, MultitonStep, MachineStep DEF PartsNext, ModelsInv
<1>3. ASSUME ModelsInv, UNCHANGED parts_vars
      PROVE  ModelsInv'
  BY <1>3, MultitonIdle, MachineIdle DEF ModelsInv, parts_vars
<1> QED BY <1>1, <1>2, <1>3, PTL DEF PartsSpec

\* For any threads, keys and instances: an instance that lives is in the map
\* under one key, in the hands of a reset or lost by one that found the key
\* empty, and all who asked since the last reset or delete got the same
\* (Multiton's get, delete and reset, searching with and without the lock).
\* For any states, events and nesting: between triggers a machine says the
\* state its host entered last, unless a function refused after an exit or a
\* trigger ran inside another (Efsm's Trigger and changeStateForce).
THEOREM ModelsKept == PartsSpec => []ModelsSound
<1>1. ModelsInv => ModelsSound
  BY MultitonMeans, MachineMeans DEF ModelsInv, ModelsSound
<1> QED BY <1>1, ModelsHold, PTL

SignalsInv == (which = "sigs" => SignalInv) /\ (which = "masks" => MaskInv)

LEMMA SignalsHold == PartsSpec => []SignalsInv
<1>1. PartsInit => SignalsInv
  BY SignalStart, MaskStart DEF PartsInit, SignalsInv
<1>2. ASSUME SignalsInv, PartsNext
      PROVE  SignalsInv'
  BY <1>2, SignalStep, MaskStep DEF PartsNext, SignalsInv
<1>3. ASSUME SignalsInv, UNCHANGED parts_vars
      PROVE  SignalsInv'
  BY <1>3, SignalIdle, MaskIdle DEF SignalsInv, parts_vars
<1> QED BY <1>1, <1>2, <1>3, PTL DEF PartsSpec

\* For any signals and handlers: outside a registration the maps say what the
\* kernel does with a signal and what it did before, unless a handler
\* registered the same one in the middle of a registration (Register, Revert
\* and their forms for all signals).  For any threads and masks: what an
\* object remembers is true of a thread that wrote it, as long as that
\* thread's mask was set through it last (Mask, UnMask, MaskReplace, MaskRevert).
THEOREM SignalsKept == PartsSpec => []SignalsKnown
<1>1. SignalsInv => SignalsKnown
  BY MaskMeans DEF SignalsInv, SignalInv, SignalsKnown
<1> QED BY <1>1, SignalsHold, PTL

DescriptorsInv ==
  /\ which = "sock" => SockInv
  /\ which = "fds" => FdsInv
  /\ which = "select" => SelectInv
  /\ which = "epoll" => EdgesInv
  /\ which = "multi" => MulticastInv
  /\ which = "transfer" => TransferInv

LEMMA DescriptorsHold == PartsSpec => []DescriptorsInv
<1>1. PartsInit => DescriptorsInv
  BY SockStart, FdsStart, SelectStart, EdgesStart, MulticastStart, TransferStart DEF PartsInit, DescriptorsInv
<1>2. ASSUME DescriptorsInv, PartsNext
      PROVE  DescriptorsInv'
  BY <1>2, SockStep, FdsStep, SelectStep, EdgesStep, MulticastStep, TransferStep DEF PartsNext, DescriptorsInv
<1>3. ASSUME DescriptorsInv, UNCHANGED parts_vars
      PROVE  DescriptorsInv'
  BY <1>3, SockIdle, FdsIdle, SelectIdle, EdgesIdle, MulticastIdle, TransferIdle DEF DescriptorsInv, parts_vars
<1> QED BY <1>1, <1>2, <1>3, PTL DEF PartsSpec

\* For any objects, descriptors, items, groups and sizes: an object that
\* closes by itself is the only one that works on its descriptor, which is open,
\* and each open descriptor is somebody's (copies, assignments and closes of
\* sockets and of FD); the select thread calls an item only for events of the
\* descriptor it was added for, and the item stays in the map until the call is
\* over (AddSelectItem, DelSelectItem and the loop of AutoSelect); an edge of a
\* registered descriptor is reported or still queued, at most once, and each
\* reported event has its callback (SelectEpoll); a socket can leave the groups
\* it is in unless its addresses were replaced (SetMcastJoin, SetMcastLeave);
\* and what a socket received is what was sent, item by item, where RecvFD may
\* have taken data for garbage (Send and Recv of SocketTransfer).
THEOREM DescriptorsKept == PartsSpec => []DescriptorsKnown
<1>1. DescriptorsInv => DescriptorsKnown
  BY SockMeans, FdsMeans, SelectMeans, EdgesMeans, MulticastMeans, TransferMeans DEF DescriptorsInv, DescriptorsKnown
<1> QED BY <1>1, DescriptorsHold, PTL

(***************************************************************************)
(* Seconds and nanoseconds.                                                *)
(***************************************************************************)
LEMMA TimeConstants == TimeNano \in Nat \ 0..1 /\ TimeLongs \subseteq Int /\ TimeExact \in Nat
BY PartsAssumption

\* What the nanoseconds of an object are, and what it amounts to.
TimeInv ==
  /\ second_ \in [Pair -> Int] /\ nanosecond_ \in [Pair -> Int] /\ exact \in [Pair -> Int]
  /\ \A x \in Pair :
       /\ second_[x] * TimeNano + nanosecond_[x] = exact[x]
       /\ x \notin signed => nanosecond_[x] \in 0..TimeNano - 1

LEMMA TimeStart == Time!Init => TimeInv
<1> SUFFICES ASSUME Time!Init PROVE TimeInv
  OBVIOUS
<1>1. second_ \in [Pair -> Int] /\ nanosecond_ \in [Pair -> Int] /\ exact \in [Pair -> Int]
  BY DEF Time!Init
<1>2. ASSUME NEW x \in Pair
      PROVE  second_[x] * TimeNano + nanosecond_[x] = exact[x] /\ nanosecond_[x] \in 0..TimeNano - 1
  BY TimeConstants DEF Time!Init
<1> QED BY <1>1, <1>2 DEF TimeInv

LEMMA TimeIdle == TimeInv /\ UNCHANGED time_vars => TimeInv'
BY DEF TimeInv, time_vars

\* Rules of products, one at a time.
LEMMA TimeProducts ==
  ASSUME NEW s \in Int, NEW t \in Int, NEW p \in Nat
  PROVE  /\ s * p \in Int /\ (s + t) * p = s * p + t * p /\ (s - t) * p = s * p - t * p
         /\ s < t => s * p + p <= t * p
OBVIOUS

\* Seconds and the rest of a number.
LEMMA TimeQuot ==
  ASSUME NEW l \in Int
  PROVE  /\ Time!Quot(l) \in Int /\ Time!Rem(l) \in Int /\ Time!Quot(l) * TimeNano + Time!Rem(l) = l
         /\ l >= 0 => Time!Rem(l) \in 0..TimeNano - 1 /\ Time!Quot(l) = l \div TimeNano /\ Time!Rem(l) = l % TimeNano
<1>1. ASSUME NEW n \in Nat
      PROVE  n \div TimeNano \in Nat /\ n % TimeNano \in 0..TimeNano - 1 /\ n = (n \div TimeNano) * TimeNano + (n % TimeNano)
  BY TimeConstants
<1>2. CASE l >= 0
  <2>1. l \in Nat /\ Time!Quot(l) = l \div TimeNano
    BY <1>2 DEF Time!Quot
  <2>2. PICK q \in Nat, r \in 0..TimeNano - 1 : q = l \div TimeNano /\ r = l % TimeNano /\ l = q * TimeNano + r
    BY <1>1, <2>1
  <2>3. q * TimeNano \in Int
    BY TimeConstants
  <2>4. Time!Rem(l) = r
    BY <2>1, <2>2, <2>3, TimeConstants DEF Time!Rem
  <2> QED BY <2>1, <2>2, <2>3, <2>4
<1>3. CASE l < 0
  <2>1. -l \in Nat /\ Time!Quot(l) = -((-l) \div TimeNano)
    BY <1>3 DEF Time!Quot
  <2>2. Time!Quot(l) \in Int
    BY <1>1, <2>1
  <2>3. Time!Quot(l) * TimeNano \in Int
    BY <2>2, TimeConstants
  <2> QED BY <1>3, <2>2, <2>3 DEF Time!Rem
<1> QED BY <1>2, <1>3

\* An object becomes so many seconds and nanoseconds.
LEMMA TimeBecomes ==
  ASSUME TimeInv, NEW x \in Pair, NEW s \in Int, NEW n \in Int, NEW e, NEW neg \in BOOLEAN, Time!Becomes(x, s, n, e, neg),
         s * TimeNano + n = e, ~neg => n \in 0..TimeNano - 1
  PROVE  TimeInv'
<1>1. e \in Int
  BY TimeConstants
<1>2. second_' \in [Pair -> Int] /\ nanosecond_' \in [Pair -> Int] /\ exact' \in [Pair -> Int]
  BY <1>1 DEF Time!Becomes, TimeInv
<1>3. ASSUME NEW y \in Pair
      PROVE  second_'[y] * TimeNano + nanosecond_'[y] = exact'[y] /\ (y \notin signed' => nanosecond_'[y] \in 0..TimeNano - 1)
  <2>1. CASE y = x
    <3>1. second_'[y] = s /\ nanosecond_'[y] = n /\ exact'[y] = e /\ (y \notin signed' => ~neg)
      BY <2>1 DEF Time!Becomes, TimeInv
    <3> QED BY <3>1
  <2>2. CASE y # x
    <3>1. second_'[y] = second_[y] /\ nanosecond_'[y] = nanosecond_[y] /\ exact'[y] = exact[y] /\ (y \in signed' <=> y \in signed)
      BY <2>2 DEF Time!Becomes, TimeInv
    <3> QED BY <3>1 DEF TimeInv
  <2> QED BY <2>1, <2>2
<1> QED BY <1>2, <1>3 DEF TimeInv

\* More nanoseconds than a second has make seconds of them; too few take one.
LEMMA TimeCarry ==
  ASSUME NEW s \in Int, NEW n \in Int
  PROVE  /\ Time!Carry(s, n).s \in Int /\ Time!Carry(s, n).n \in Int
         /\ Time!Carry(s, n).s * TimeNano + Time!Carry(s, n).n = s * TimeNano + n
         /\ n >= 0 => Time!Carry(s, n).n \in 0..TimeNano - 1
         /\ n < 0 => Time!Carry(s, n).n = n
<1>1. CASE n < TimeNano
  BY <1>1, TimeConstants DEF Time!Carry
<1>2. CASE n >= TimeNano
  <2>1. n \in Nat /\ n >= 0
    BY <1>2, TimeConstants
  <2>2. PICK q \in Int, r \in 0..TimeNano - 1 : q = n \div TimeNano /\ r = n % TimeNano /\ n = q * TimeNano + r
    BY <2>1, TimeQuot
  <2>3. Time!Carry(s, n).s = s + q /\ Time!Carry(s, n).n = r
    BY <1>2, <2>2 DEF Time!Carry
  <2>4. (s + q) * TimeNano = s * TimeNano + q * TimeNano /\ s * TimeNano \in Int /\ q * TimeNano \in Int
    BY TimeConstants, TimeProducts
  <2> QED BY <2>1, <2>2, <2>3, <2>4, TimeConstants
<1> QED BY <1>1, <1>2, TimeConstants

LEMMA TimeBorrow ==
  ASSUME NEW s \in Int, NEW n \in Int
  PROVE  /\ Time!Borrow(s, n).s \in Int /\ Time!Borrow(s, n).n \in Int
         /\ Time!Borrow(s, n).s * TimeNano + Time!Borrow(s, n).n = s * TimeNano + n
         /\ n \in -TimeNano..TimeNano - 1 => Time!Borrow(s, n).n \in 0..TimeNano - 1
<1>1. CASE n >= 0
  BY <1>1, TimeConstants DEF Time!Borrow
<1>2. CASE n < 0
  <2>1. Time!Borrow(s, n).s = s - 1 /\ Time!Borrow(s, n).n = n + TimeNano
    BY <1>2 DEF Time!Borrow
  <2>2. (s - 1) * TimeNano = s * TimeNano - 1 * TimeNano /\ s * TimeNano \in Int
    BY TimeConstants, TimeProducts
  <2> QED BY <1>2, <2>1, <2>2, TimeConstants
<1> QED BY <1>1, <1>2

\* So much added to an object, and so much taken from it.
LEMMA TimePlus ==
  ASSUME TimeInv, NEW x \in Pair, NEW s \in Int, NEW n \in Int, NEW e, NEW neg \in BOOLEAN,
         s * TimeNano + n = e, ~neg => n \in 0..TimeNano - 1,
         Time!Plus(x, s, n, e, neg) \/ Time!Minus(x, s, n, e, neg)
  PROVE  TimeInv'
<1>1. /\ second_[x] \in Int /\ nanosecond_[x] \in Int /\ second_[x] * TimeNano + nanosecond_[x] = exact[x]
      /\ x \notin signed => nanosecond_[x] \in 0..TimeNano - 1
  BY DEF TimeInv
<1>2. PICK s0 \in Int, n0 \in Int, e0 \in Int : s0 = second_[x] /\ n0 = nanosecond_[x] /\ e0 = exact[x] /\ s0 * TimeNano + n0 = e0
  BY <1>1, TimeConstants, TimeProducts
<1>3. /\ (s0 + s) * TimeNano = s0 * TimeNano + s * TimeNano /\ (s0 - s) * TimeNano = s0 * TimeNano - s * TimeNano
      /\ s0 * TimeNano \in Int /\ s * TimeNano \in Int
  BY TimeConstants, TimeProducts
<1>4. e \in Int /\ (s0 + s) * TimeNano + (n0 + n) = e0 + e /\ (s0 - s) * TimeNano + (n0 - n) = e0 - e
  <2>1. PICK p \in Int, q \in Int : p = s0 * TimeNano /\ q = s * TimeNano
    BY <1>3
  <2>2. e = q + n /\ e0 = p + n0 /\ e \in Int
    BY <1>2, <2>1
  <2>3. (p + q) + (n0 + n) = e0 + e /\ (p - q) + (n0 - n) = e0 - e
    BY ONLY p \in Int, q \in Int, n0 \in Int, n \in Int, <2>2
  <2> QED BY <1>3, <2>1, <2>2, <2>3
<1>5. ~(neg \/ x \in signed) => n0 + n >= 0 /\ n0 - n \in -TimeNano..TimeNano - 1
  BY <1>1, <1>2, TimeConstants
<1>6. CASE Time!Plus(x, s, n, e, neg)
  <2>1. PICK c : c = Time!Carry(s0 + s, n0 + n)
    OBVIOUS
  <2>2. /\ c.s \in Int /\ c.n \in Int /\ c.s * TimeNano + c.n = (s0 + s) * TimeNano + (n0 + n)
        /\ n0 + n >= 0 => c.n \in 0..TimeNano - 1
    BY <2>1, TimeCarry
  <2>3. Time!Becomes(x, c.s, c.n, e0 + e, neg \/ x \in signed)
    BY <1>2, <1>6, <2>1 DEF Time!Plus
  <2>4. c.s * TimeNano + c.n = e0 + e /\ (~(neg \/ x \in signed) => c.n \in 0..TimeNano - 1)
    BY <1>4, <1>5, <2>2
  <2>5. PICK g \in BOOLEAN : g <=> (neg \/ x \in signed)
    OBVIOUS
  <2>6. Time!Becomes(x, c.s, c.n, e0 + e, g)
    BY <2>3, <2>5 DEF Time!Becomes
  <2>7. ~g => c.n \in 0..TimeNano - 1
    BY <2>4, <2>5
  <2> QED BY <2>2, <2>4, <2>6, <2>7, TimeBecomes
<1>7. CASE Time!Minus(x, s, n, e, neg)
  <2>1. PICK d : d = Time!Borrow(s0 - s, n0 - n)
    OBVIOUS
  <2>2. /\ d.s \in Int /\ d.n \in Int /\ d.s * TimeNano + d.n = (s0 - s) * TimeNano + (n0 - n)
        /\ n0 - n \in -TimeNano..TimeNano - 1 => d.n \in 0..TimeNano - 1
    BY <2>1, TimeBorrow
  <2>3. Time!Becomes(x, d.s, d.n, e0 - e, neg \/ x \in signed)
    BY <1>2, <1>7, <2>1 DEF Time!Minus
  <2>4. d.s * TimeNano + d.n = e0 - e /\ (~(neg \/ x \in signed) => d.n \in 0..TimeNano - 1)
    BY <1>4, <1>5, <2>2
  <2>5. PICK g \in BOOLEAN : g <=> (neg \/ x \in signed)
    OBVIOUS
  <2>6. Time!Becomes(x, d.s, d.n, e0 - e, g)
    BY <2>3, <2>5 DEF Time!Becomes
  <2>7. ~g => d.n \in 0..TimeNano - 1
    BY <2>4, <2>5
  <2> QED BY <2>2, <2>4, <2>6, <2>7, TimeBecomes
<1> QED BY <1>6, <1>7

\* SetNanoSecond: what it makes of the seconds there are.
LEMMA TimeSetNano ==
  ASSUME TimeInv, NEW x \in Pair, NEW l \in Int, Time!SetNanoSecond(x, l)
  PROVE  TimeInv'
<1>1. PICK s0 \in Int : s0 = second_[x]
  BY DEF TimeInv
<1>2. PICK c : c = Time!Carry(s0, l)
  OBVIOUS
<1>3. /\ c.s \in Int /\ c.n \in Int /\ c.s * TimeNano + c.n = s0 * TimeNano + l
      /\ l >= 0 => c.n \in 0..TimeNano - 1
      /\ l < 0 => c.n = l
  BY <1>2, TimeCarry
<1>4. PICK d : d = Time!Borrow(c.s, c.n)
  OBVIOUS
<1>5. /\ d.s \in Int /\ d.n \in Int /\ d.s * TimeNano + d.n = c.s * TimeNano + c.n
      /\ c.n \in -TimeNano..TimeNano - 1 => d.n \in 0..TimeNano - 1
  BY <1>3, <1>4, TimeBorrow
<1>6. Time!Becomes(x, d.s, d.n, s0 * TimeNano + l, l < -TimeNano)
  BY <1>1, <1>2, <1>4 DEF Time!SetNanoSecond
<1>7. ~(l < -TimeNano) => d.n \in 0..TimeNano - 1
  BY <1>3, <1>5, TimeConstants
<1>8. PICK g \in BOOLEAN : g <=> (l < -TimeNano)
  OBVIOUS
<1>9. Time!Becomes(x, d.s, d.n, s0 * TimeNano + l, g)
  BY <1>6, <1>8 DEF Time!Becomes
<1>10. ~g => d.n \in 0..TimeNano - 1
  BY <1>7, <1>8
<1> QED BY <1>3, <1>5, <1>9, <1>10, TimeBecomes

LEMMA TimeStep == ASSUME TimeInv, Time!Next PROVE TimeInv'
<1>1. ASSUME NEW x \in Pair, NEW y \in Pair, Time!PlusTime(x, y) \/ Time!MinusTime(x, y)
      PROVE  TimeInv'
  <2>1. /\ second_[y] \in Int /\ nanosecond_[y] \in Int /\ second_[y] * TimeNano + nanosecond_[y] = exact[y]
        /\ y \notin signed => nanosecond_[y] \in 0..TimeNano - 1
    BY DEF TimeInv
  <2>2. PICK g \in BOOLEAN : g <=> (y \in signed)
    OBVIOUS
  <2>3. Time!Plus(x, second_[y], nanosecond_[y], exact[y], g) \/ Time!Minus(x, second_[y], nanosecond_[y], exact[y], g)
    BY <1>1, <2>2 DEF Time!PlusTime, Time!MinusTime, Time!Plus, Time!Minus, Time!Becomes
  <2> QED BY <2>1, <2>2, <2>3, TimePlus
<1>2. ASSUME NEW x \in Pair, NEW l \in TimeLongs, Time!PlusLong(x, l) \/ Time!MinusLong(x, l)
      PROVE  TimeInv'
  <2>1. PICK g \in BOOLEAN : g <=> (l < 0)
    OBVIOUS
  <2>2. l \in Int /\ (~g => l >= 0)
    BY <2>1, TimeConstants
  <2>3. /\ Time!Quot(l) \in Int /\ Time!Rem(l) \in Int /\ Time!Quot(l) * TimeNano + Time!Rem(l) = l
        /\ ~g => Time!Rem(l) \in 0..TimeNano - 1
    BY <2>2, TimeQuot
  <2>4. Time!Plus(x, Time!Quot(l), Time!Rem(l), l, g) \/ Time!Minus(x, Time!Quot(l), Time!Rem(l), l, g)
    BY <1>2, <2>1 DEF Time!PlusLong, Time!MinusLong, Time!Plus, Time!Minus, Time!Becomes
  <2> QED BY <2>3, <2>4, TimePlus
<1>3. ASSUME NEW x \in Pair, NEW m \in Int, Time!Becomes(x, Time!Quot(m), Time!Rem(m), m, m < 0)
      PROVE  TimeInv'
  <2>1. PICK g \in BOOLEAN : g <=> (m < 0)
    OBVIOUS
  <2>2. ~g => m >= 0
    BY <2>1
  <2>3. /\ Time!Quot(m) \in Int /\ Time!Rem(m) \in Int /\ Time!Quot(m) * TimeNano + Time!Rem(m) = m
        /\ ~g => Time!Rem(m) \in 0..TimeNano - 1
    BY <2>2, TimeQuot
  <2>4. Time!Becomes(x, Time!Quot(m), Time!Rem(m), m, g)
    BY <1>3, <2>1 DEF Time!Becomes
  <2> QED BY <2>3, <2>4, TimeBecomes
<1>4. ASSUME NEW x \in Pair, NEW l \in TimeLongs, NEW u \in {1, TimeNano}, Time!SetTime(x, l, u)
      PROVE  TimeInv'
  <2>1. l \in Int /\ u \in Nat \ {0} /\ l * u \in Int
    BY TimeConstants, TimeProducts
  <2>2. l * u < 0 <=> l < 0
    BY <2>1
  <2>3. Time!Becomes(x, Time!Quot(l * u), Time!Rem(l * u), l * u, l * u < 0)
    BY <1>4, <2>2 DEF Time!SetTime, Time!Becomes
  <2> QED BY <1>3, <2>1, <2>3
<1>5. ASSUME NEW x \in Pair, NEW l \in TimeLongs, Time!Assign(x, l)
      PROVE  TimeInv'
  BY <1>3, <1>5, TimeConstants DEF Time!Assign
<1>6. ASSUME NEW x \in Pair, NEW l \in TimeLongs, Time!SetSecond(x, l)
      PROVE  TimeInv'
  <2>1. PICK n \in Int : n = nanosecond_[x] /\ (x \notin signed => n \in 0..TimeNano - 1)
    BY DEF TimeInv
  <2>2. PICK g \in BOOLEAN : g <=> (x \in signed)
    OBVIOUS
  <2>3. l \in Int /\ Time!Becomes(x, l, n, l * TimeNano + n, g)
    BY <1>6, <2>1, <2>2, TimeConstants DEF Time!SetSecond, Time!Becomes
  <2> QED BY <2>1, <2>2, <2>3, TimeBecomes
<1>7. ASSUME NEW x \in Pair, NEW l \in TimeLongs, Time!SetNanoSecond(x, l)
      PROVE  TimeInv'
  BY <1>7, TimeSetNano, TimeConstants
<1> QED BY <1>1, <1>2, <1>4, <1>5, <1>6, <1>7 DEF Time!Next

LEMMA TimeMeans == TimeInv => Time!ExactTime
<1> SUFFICES ASSUME TimeInv, NEW x \in Pair
             PROVE  /\ second_[x] * TimeNano + nanosecond_[x] = exact[x]
                    /\ x \notin signed => nanosecond_[x] \in 0..TimeNano - 1 /\ Time!IsPositive(x)
                    /\ \A y \in Pair \ signed : x \notin signed =>
                         /\ Time!Less(x, y) <=> exact[x] < exact[y]
                         /\ Time!Equal(x, y) <=> exact[x] = exact[y]
                    /\ x \notin signed => (Time!IsZero(x) <=> exact[x] = 0) /\ Time!GetTime(x, 1) = exact[x]
  BY DEF Time!ExactTime
<1>1. \A y \in Pair :
        /\ second_[y] \in Int /\ nanosecond_[y] \in Int /\ second_[y] * TimeNano + nanosecond_[y] = exact[y]
        /\ y \notin signed => nanosecond_[y] \in 0..TimeNano - 1
  BY DEF TimeInv
<1>2. x \notin signed => nanosecond_[x] \in 0..TimeNano - 1 /\ Time!IsPositive(x)
  <2>1. x \notin signed => nanosecond_[x] \in 0..TimeNano - 1
    BY <1>1
  <2>2. x \notin signed => ~(nanosecond_[x] < 0)
    BY <2>1, TimeConstants
  <2> QED BY <2>1, <2>2 DEF Time!IsPositive
<1>3. ASSUME NEW s \in Int, NEW t \in Int, NEW m \in 0..TimeNano - 1, NEW n \in 0..TimeNano - 1
      PROVE  /\ (IF s = t THEN m < n ELSE s < t) <=> s * TimeNano + m < t * TimeNano + n
             /\ s = t /\ m = n <=> s * TimeNano + m = t * TimeNano + n
  <2>1. s * TimeNano \in Int /\ t * TimeNano \in Int /\ m \in Int /\ n \in Int
    BY TimeConstants, TimeProducts
  <2>2. CASE s = t
    BY <2>1, <2>2
  <2>3. CASE s < t
    <3>1. s * TimeNano + TimeNano <= t * TimeNano
      BY <2>3, TimeConstants, TimeProducts
    <3> QED BY <2>1, <2>3, <3>1, TimeConstants
  <2>4. CASE t < s
    <3>1. t * TimeNano + TimeNano <= s * TimeNano
      BY <2>4, TimeConstants, TimeProducts
    <3> QED BY <2>1, <2>4, <3>1, TimeConstants
  <2> QED BY <2>2, <2>3, <2>4
<1>4. ASSUME NEW y \in Pair \ signed, x \notin signed
      PROVE  (Time!Less(x, y) <=> exact[x] < exact[y]) /\ (Time!Equal(x, y) <=> exact[x] = exact[y])
  BY <1>1, <1>3, <1>4 DEF Time!Less, Time!Equal
<1>5. x \notin signed => (Time!IsZero(x) <=> exact[x] = 0)
  <2>1. 0 \in 0..TimeNano - 1 /\ 0 * TimeNano + 0 = 0
    BY TimeConstants
  <2> QED BY <1>1, <1>3, <2>1 DEF Time!IsZero
<1>6. ASSUME x \notin signed PROVE Time!GetTime(x, 1) = exact[x]
  <2>1. TimeNano \div 1 = TimeNano
    BY TimeConstants
  <2>2. PICK n \in 0..TimeNano - 1 : n = nanosecond_[x]
    BY <1>2, <1>6
  <2>3. n * TimeNano \in Int /\ n * TimeNano >= 0 /\ (n * TimeNano) \div TimeNano = n
    BY TimeConstants
  <2>4. Time!Quot(n * TimeNano) = n
    BY <2>3, TimeQuot
  <2> QED BY <1>1, <2>1, <2>2, <2>4 DEF Time!GetTime
<1> QED BY <1>1, <1>2, <1>4, <1>5, <1>6

(***************************************************************************)
(* The next date of a crontab rule: how Next goes through the fields.      *)
(***************************************************************************)
LEMMA CronConstants ==
  /\ CronRules \subseteq Seq([star : BOOLEAN, frequency : SUBSET Nat, value : SUBSET Nat])
  /\ \A rule \in CronRules : \A i \in 1..Len(rule) : rule[i].star => rule[i].value = {}
  /\ CronStarts \subseteq [year : Int, mon : Int, mday : Int, wday : Int, yday : Int, hour : Int, min : Int, sec : Int]
BY PartsAssumption
LEMMA CronCardinality == \A S : Cron!Cardinality(S) = Cardinality(S)
BY DEF Cardinality, Cron!Cardinality
Numbers == [star : BOOLEAN, frequency : SUBSET Nat, value : SUBSET Nat]

\* Dates, and the fields whose numbers Set takes.
Dates == [year : Int, mon : Int, mday : Int, wday : Int, yday : Int, hour : Int, min : Int, sec : Int]
Taken == {"Year", "Month", "DayOfMonth", "Hour", "Minute", "Second"}

LEMMA CronNames ==
  /\ Cron!Names = Taken \cup {"Week", "DayOfWeek"} /\ Taken = {Cron!Clock[k] : k \in 1..6}
  /\ \A i \in 1..8 : Cron!Fields[i] \in Cron!Names /\ Cron!Sub(Cron!Fields[i]) = sub_rule_vec_[i]
  /\ \A i, j \in 1..8 : Cron!Fields[i] = Cron!Fields[j] => i = j
  /\ DOMAIN Cron!Fields = 1..8 /\ Len(Cron!Fields) = 8 /\ DOMAIN Cron!Clock = 1..6 /\ Len(Cron!Clock) = 6
<1>1. DOMAIN Cron!Fields = 1..8 /\ Len(Cron!Fields) = 8 /\ DOMAIN Cron!Clock = 1..6 /\ Len(Cron!Clock) = 6
  BY DEF Cron!Fields, Cron!Clock
<1>2. \A i \in 1..8 : i = 1 \/ i = 2 \/ i = 3 \/ i = 4 \/ i = 5 \/ i = 6 \/ i = 7 \/ i = 8
  OBVIOUS
<1>3. \A i, j \in 1..8 : Cron!Fields[i] = Cron!Fields[j] => i = j
  BY <1>2 DEF Cron!Fields
<1>4. Cron!Names = Taken \cup {"Week", "DayOfWeek"}
  BY <1>1, <1>2 DEF Cron!Names, Taken, Cron!Fields
<1>5. Taken = {Cron!Clock[k] : k \in 1..6}
  <2>1. \A i \in 1..6 : i = 1 \/ i = 2 \/ i = 3 \/ i = 4 \/ i = 5 \/ i = 6
    OBVIOUS
  <2> QED BY <2>1 DEF Cron!Clock, Taken
<1>6. ASSUME NEW i \in 1..8 PROVE Cron!Fields[i] \in Cron!Names /\ Cron!Sub(Cron!Fields[i]) = sub_rule_vec_[i]
  <2>1. (CHOOSE j \in DOMAIN Cron!Fields : Cron!Fields[j] = Cron!Fields[i]) = i
    BY <1>1, <1>3
  <2> QED BY <1>1, <2>1 DEF Cron!Names, Cron!Sub
<1> QED BY <1>1, <1>3, <1>4, <1>5, <1>6

LEMMA CronDates ==
  ASSUME NEW e \in Dates
  PROVE  /\ \A f \in Cron!Names : Cron!Get(e, f) \in Int
         /\ \A f \in Cron!Names, n \in Int : Cron!Set(e, n, f) \in Dates
<1>1. \A f \in Cron!Names : Cron!Get(e, f) \in Int
  BY CronNames DEF Cron!Get, Dates, Taken
<1>2. ASSUME NEW f \in Cron!Names, NEW n \in Int PROVE Cron!Set(e, n, f) \in Dates
  <2>1. f \in Taken \cup {"Week", "DayOfWeek"}
    BY CronNames
  <2>2. (e.yday \div 7) + n - 1 \in Int
    BY DEF Dates
  <2> QED BY <2>1, <2>2 DEF Cron!Set, Dates, Taken
<1> QED BY <1>1, <1>2

\* Setting one field leaves the others; only that of the day of the week sets
\* a field that is not its own.
LEMMA CronSets ==
  ASSUME NEW e \in Dates, NEW f \in Cron!Names, NEW n \in Int, NEW g \in Cron!Names, g # f, f # "DayOfWeek"
  PROVE  Cron!Get(Cron!Set(e, n, f), g) = Cron!Get(e, g)
<1>1. f \in Taken \cup {"Week"} /\ g \in Taken \cup {"Week", "DayOfWeek"}
  BY CronNames
<1> QED BY <1>1 DEF Cron!Get, Cron!Set, Dates, Taken

LEMMA CronSetsDay ==
  ASSUME NEW e \in Dates, NEW n \in Int, NEW g \in Cron!Names, g # "Week"
  PROVE  Cron!Get(Cron!Set(e, n, "DayOfWeek"), g) = Cron!Get(e, g)
<1>1. g \in Taken \cup {"DayOfWeek"}
  BY CronNames
<1> QED BY <1>1 DEF Cron!Get, Cron!Set, Dates, Taken

LEMMA CronSetsWeek ==
  ASSUME NEW e \in Dates, NEW n \in Int
  PROVE  Cron!Set(e, n, "Week") = e
BY DEF Cron!Set

\* The next number of a field.
Follows(s, c, sub) ==
  /\ s.to \in Int /\ s.buckle \in BOOLEAN
  /\ sub.value # {} => s.to \in sub.value
  /\ s.buckle => \A v \in sub.value : s.to <= v /\ v <= c
  /\ ~s.buckle =>
       /\ 0 \notin sub.frequency => s.to > c
       /\ sub.value # {} => \A n \in c + 1..s.to - 1 : n \notin sub.value
       /\ sub.value = {} /\ sub.frequency \subseteq {1} => s.to = c + 1

LEMMA CronNext ==
  ASSUME NEW f \in Cron!Names, NEW sub \in Numbers, Cron!SubRuleValid(f, sub), NEW c \in Int
  PROVE  Follows(Cron!SubRuleNext(f, sub, c), c, sub)
<1>1. sub.frequency \subseteq Nat /\ sub.value \subseteq Nat
  BY DEF Numbers
<1>2. sub.frequency = {} => sub.value # {}
  <2>1. Cron!Cardinality({}) = 0
    BY CronCardinality, FS_EmptySet
  <2>2. sub.frequency = {} /\ sub.value = {} => Cron!Cardinality(sub.frequency) = 0 /\ Cron!Cardinality(sub.value) = 0
    BY <2>1
  <2> QED BY <2>2 DEF Cron!SubRuleValid
<1>3. ASSUME NEW S, S \subseteq Nat, S # {}
      PROVE  Cron!Least(S) \in S /\ \A v \in S : Cron!Least(S) <= v
  BY <1>3, LeastNumber DEF Cron!Least
<1>4. CASE sub.frequency = {}
  <2> DEFINE later == {v \in sub.value : v > c}
  <2>1. Cron!SubRuleNext(f, sub, c) = IF later = {} THEN [to |-> Cron!Least(sub.value), buckle |-> TRUE] ELSE [to |-> Cron!Least(later), buckle |-> FALSE]
    BY <1>4 DEF Cron!SubRuleNext, Cron!NextValue
  <2>2. CASE later = {}
    <3>1. Cron!Least(sub.value) \in sub.value /\ \A v \in sub.value : Cron!Least(sub.value) <= v
      BY <1>1, <1>2, <1>3, <1>4
    <3>2. \A v \in sub.value : v <= c
      BY <1>1, <2>2
    <3>3. Cron!SubRuleNext(f, sub, c).to = Cron!Least(sub.value) /\ Cron!SubRuleNext(f, sub, c).buckle = TRUE
      BY <2>1, <2>2
    <3>4. PICK s : s = Cron!SubRuleNext(f, sub, c)
      OBVIOUS
    <3>5. s.to \in sub.value /\ s.to \in Int /\ s.buckle = TRUE /\ \A v \in sub.value : s.to <= v /\ v <= c
      BY <1>1, <3>1, <3>2, <3>3, <3>4
    <3> QED BY <3>4, <3>5 DEF Follows
  <2>3. CASE later # {}
    <3>1. Cron!Least(later) \in later /\ \A v \in later : Cron!Least(later) <= v
      <4>1. later \subseteq Nat
        BY <1>1
      <4> HIDE DEF later
      <4> QED BY <1>3, <2>3, <4>1
    <3>2. Cron!SubRuleNext(f, sub, c).to = Cron!Least(later) /\ Cron!SubRuleNext(f, sub, c).buckle = FALSE
      BY <2>1, <2>3
    <3>3. PICK t : t = Cron!Least(later)
      OBVIOUS
    <3>4. t \in sub.value /\ t > c /\ t \in Int /\ \A v \in sub.value : v > c => t <= v
      BY <1>1, <3>1, <3>3
    <3>5. \A n \in c + 1..t - 1 : n \notin sub.value
      BY <3>4
    <3> HIDE DEF later
    <3> QED BY <3>2, <3>3, <3>4, <3>5 DEF Follows
  <2> QED BY <2>2, <2>3
<1>5. CASE sub.frequency # {}
  <2>1. sub.value = {}
    BY <1>5 DEF Cron!SubRuleValid
  <2>2. PICK q \in Nat : q = Cron!Least(sub.frequency) /\ q \in sub.frequency
    BY <1>1, <1>3, <1>5
  <2>3. Cron!SubRuleNext(f, sub, c) = IF Cron!Over(f, c + q) THEN [to |-> (c + q) % Cron!Limit[f], buckle |-> TRUE] ELSE [to |-> c + q, buckle |-> FALSE]
    BY <1>5, <2>2 DEF Cron!SubRuleNext
  <2>4. CASE Cron!Over(f, c + q)
    <3>1. Cron!Limit[f] \in Nat \ {0}
      BY <2>4, CronNames DEF Cron!Limit, Cron!Over, Taken
    <3>2. (c + q) % Cron!Limit[f] \in Int
      BY <3>1
    <3>3. Cron!SubRuleNext(f, sub, c).to = (c + q) % Cron!Limit[f] /\ Cron!SubRuleNext(f, sub, c).buckle = TRUE
      BY <2>3, <2>4
    <3> QED BY <2>1, <3>2, <3>3 DEF Follows
  <2>5. CASE ~Cron!Over(f, c + q)
    <3>1. Cron!SubRuleNext(f, sub, c).to = c + q /\ Cron!SubRuleNext(f, sub, c).buckle = FALSE
      BY <2>3, <2>5
    <3>2. sub.frequency \subseteq {1} => q = 1
      BY <2>2
    <3>3. PICK s : s = Cron!SubRuleNext(f, sub, c)
      OBVIOUS
    <3>4. s.to = c + q /\ s.buckle = FALSE /\ s.to \in Int /\ (0 \notin sub.frequency => s.to > c)
      BY <2>2, <3>1, <3>3
    <3> QED BY <2>1, <3>2, <3>3, <3>4 DEF Follows
  <2> QED BY <2>4, <2>5
<1> QED BY <1>4, <1>5

(***************************************************************************)
(* The way through the fields.                                             *)
(***************************************************************************)
Ways == [tm : Dates, going : BOOLEAN, refused : SUBSET Cron!Names]

\* What Next does at field i.
At(way, i) ==
  IF ~way.going \/ Cron!Fields[i] \in Cron!Skipped(rule_) THEN way
  ELSE LET s == Cron!SubRuleNext(Cron!Fields[i], sub_rule_vec_[i], Cron!Get(way.tm, Cron!Fields[i]))
           tm2 == Cron!Set(way.tm, s.to, Cron!Fields[i])
       IN  [tm |-> tm2, going |-> s.buckle,
            refused |-> way.refused \cup IF Cron!Get(tm2, Cron!Fields[i]) = s.to THEN {} ELSE {Cron!Fields[i]}]

\* The fields of the rule are right, and one of the pairs' fields is "*".
RuleRight ==
  /\ rule_ \in CronRules /\ Len(sub_rule_vec_) = 8 /\ sub_rule_vec_ = rule_
  /\ \A i \in 1..8 : sub_rule_vec_[i] \in Numbers /\ Cron!SubRuleValid(Cron!Fields[i], sub_rule_vec_[i])
  /\ \A f \in Cron!Names \cap Cron!Skipped(rule_) : Cron!Sub(f).value = {}

LEMMA CronRight ==
  ASSUME rule_ \in CronRules, sub_rule_vec_ = Cron!Parse(rule_), sub_rule_vec_ # <<>>
  PROVE  RuleRight
<1>1. sub_rule_vec_ = rule_ /\ Len(rule_) = 8 /\ ~Cron!Both(rule_) /\ \A i \in DOMAIN rule_ : Cron!SubRuleValid(Cron!Fields[i], rule_[i])
  BY CronNames DEF Cron!Parse
<1>2. rule_ \in Seq(Numbers) /\ DOMAIN rule_ = 1..8
  BY <1>1, CronConstants DEF Numbers
<1>3. \A i \in 1..8 : rule_[i] \in Numbers /\ (rule_[i].star => rule_[i].value = {})
  <2>1. \A i \in 1..8 : rule_[i] \in Numbers
    BY <1>1, <1>2, ElementOfSeq
  <2>2. \A i \in 1..8 : rule_[i].star => rule_[i].value = {}
    BY <1>1, CronConstants DEF Numbers
  <2> QED BY <2>1, <2>2
<1>4. ASSUME NEW f \in Cron!Names \cap Cron!Skipped(rule_) PROVE Cron!Sub(f).value = {}
  <2>1. Cron!Star(rule_, f)
    BY <1>1, <1>4 DEF Cron!Skipped, Cron!Both
  <2>2. PICK i \in 1..8 : Cron!Fields[i] = f /\ rule_[i].star
    BY <2>1, CronNames DEF Cron!Star
  <2> QED BY <1>1, <1>3, <2>2, CronNames
<1> QED BY <1>1, <1>2, <1>3, <1>4 DEF RuleRight

LEMMA CronAt ==
  ASSUME RuleRight, NEW way \in Ways, NEW i \in 1..8
  PROVE  /\ At(way, i) \in Ways
         /\ way.going /\ Cron!Fields[i] \notin Cron!Skipped(rule_) =>
              \E s : /\ Follows(s, Cron!Get(way.tm, Cron!Fields[i]), sub_rule_vec_[i])
                     /\ At(way, i).tm = Cron!Set(way.tm, s.to, Cron!Fields[i]) /\ At(way, i).going = s.buckle
                     /\ way.refused \subseteq At(way, i).refused
                     /\ At(way, i).refused = {} => Cron!Get(At(way, i).tm, Cron!Fields[i]) = s.to
         /\ ~way.going \/ Cron!Fields[i] \in Cron!Skipped(rule_) => At(way, i) = way
<1>1. CASE ~way.going \/ Cron!Fields[i] \in Cron!Skipped(rule_)
  BY <1>1 DEF At
<1>2. CASE way.going /\ Cron!Fields[i] \notin Cron!Skipped(rule_)
  <2>1. PICK f \in Cron!Names : f = Cron!Fields[i]
    BY CronNames
  <2>2. PICK c \in Int : c = Cron!Get(way.tm, f)
    BY CronDates DEF Ways
  <2>3. PICK s : s = Cron!SubRuleNext(f, sub_rule_vec_[i], c)
    OBVIOUS
  <2>4. Follows(s, c, sub_rule_vec_[i])
    BY <2>1, <2>3, CronNext DEF RuleRight
  <2>5. PICK tm2 \in Dates : tm2 = Cron!Set(way.tm, s.to, f)
    BY <2>4, CronDates DEF Ways, Follows
  <2>6. At(way, i) = [tm |-> tm2, going |-> s.buckle, refused |-> way.refused \cup IF Cron!Get(tm2, f) = s.to THEN {} ELSE {f}]
    BY <1>2, <2>1, <2>2, <2>3, <2>5 DEF At
  <2>7. s.buckle \in BOOLEAN /\ (way.refused \cup IF Cron!Get(tm2, f) = s.to THEN {} ELSE {f}) \in SUBSET Cron!Names
    BY <2>4 DEF Follows, Ways
  <2>8. At(way, i) \in Ways
    BY <2>6, <2>7 DEF Ways
  <2>9. /\ At(way, i).tm = tm2 /\ At(way, i).going = s.buckle /\ way.refused \subseteq At(way, i).refused
        /\ At(way, i).refused = {} => Cron!Get(tm2, f) = s.to
    BY <2>6
  <2> QED BY <1>2, <2>1, <2>2, <2>4, <2>5, <2>8, <2>9
<1> QED BY <1>1, <1>2

LEMMA CronWalk ==
  ASSUME RuleRight, NEW tm \in Dates
  PROVE  \E w \in [0..8 -> Ways] :
           /\ w[8] = [tm |-> tm, going |-> TRUE, refused |-> {}]
           /\ \A i \in 1..8 : w[i - 1] = At(w[i], i)
           /\ Cron!Walk(tm) = w[0]
<1> DEFINE Is(from) ==
      from = [i \in 0..Len(Cron!Fields) |->
        IF i = Len(Cron!Fields) THEN [tm |-> tm, going |-> TRUE, refused |-> {}]
        ELSE LET before == from[i + 1] field == Cron!Fields[i + 1] IN
             IF ~before.going \/ field \in Cron!Skipped(rule_) THEN before
             ELSE LET s == Cron!SubRuleNext(field, sub_rule_vec_[i + 1], Cron!Get(before.tm, field))
                      tm2 == Cron!Set(before.tm, s.to, field)
                  IN  [tm |-> tm2, going |-> s.buckle,
                       refused |-> before.refused \cup IF Cron!Get(tm2, field) = s.to THEN {} ELSE {field}]]
<1>1. PICK w8 \in Ways : w8 = [tm |-> tm, going |-> TRUE, refused |-> {}]
  BY DEF Ways
<1>2. PICK w7 \in Ways : w7 = At(w8, 8)
  BY CronAt
<1>3. PICK w6 \in Ways : w6 = At(w7, 7)
  BY CronAt
<1>4. PICK w5 \in Ways : w5 = At(w6, 6)
  BY CronAt
<1>5. PICK w4 \in Ways : w4 = At(w5, 5)
  BY CronAt
<1>6. PICK w3 \in Ways : w3 = At(w4, 4)
  BY CronAt
<1>7. PICK w2 \in Ways : w2 = At(w3, 3)
  BY CronAt
<1>8. PICK w1 \in Ways : w1 = At(w2, 2)
  BY CronAt
<1>9. PICK w0 \in Ways : w0 = At(w1, 1)
  BY CronAt
<1>10. PICK w : w = [i \in 0..8 |-> IF i = 0 THEN w0 ELSE IF i = 1 THEN w1 ELSE IF i = 2 THEN w2 ELSE IF i = 3 THEN w3
                                    ELSE IF i = 4 THEN w4 ELSE IF i = 5 THEN w5 ELSE IF i = 6 THEN w6 ELSE IF i = 7 THEN w7 ELSE w8]
  OBVIOUS
<1>11. w \in [0..8 -> Ways] /\ w[8] = w8 /\ DOMAIN w = 0..8
  BY <1>10
<1>12. ASSUME NEW i \in 0..7 PROVE w[i] = At(w[i + 1], i + 1)
  <2>1. i = 0 \/ i = 1 \/ i = 2 \/ i = 3 \/ i = 4 \/ i = 5 \/ i = 6 \/ i = 7
    OBVIOUS
  <2> QED BY <1>2, <1>3, <1>4, <1>5, <1>6, <1>7, <1>8, <1>9, <1>10, <2>1
<1>13. \E from : Is(from)
  <2>1. \A i \in 0..8 : w[i] = IF i = 8 THEN [tm |-> tm, going |-> TRUE, refused |-> {}] ELSE At(w[i + 1], i + 1)
    <3>1. w[8] = [tm |-> tm, going |-> TRUE, refused |-> {}]
      BY <1>1, <1>11
    <3>2. \A i \in 0..8 : i # 8 => i \in 0..7
      OBVIOUS
    <3> QED BY <1>12, <3>1, <3>2
  <2>2. w = [i \in 0..8 |-> IF i = 8 THEN [tm |-> tm, going |-> TRUE, refused |-> {}] ELSE At(w[i + 1], i + 1)]
    BY <1>10, <2>1
  <2>3. w = [i \in 0..Len(Cron!Fields) |-> IF i = Len(Cron!Fields) THEN [tm |-> tm, going |-> TRUE, refused |-> {}] ELSE At(w[i + 1], i + 1)]
    <3>1. Len(Cron!Fields) = 8
      BY CronNames
    <3> QED BY <2>2, <3>1
  <2>4. Is(w)
    BY Zenon, <2>3 DEF At
  <2> QED BY <2>4
<1>14. PICK from : from = CHOOSE g : Is(g)
  BY Zenon
<1>15. Is(from) /\ Cron!Walk(tm) = from[0]
  BY Zenon, <1>13, <1>14 DEF Cron!Walk
<1>16. from = [i \in 0..8 |-> IF i = 8 THEN [tm |-> tm, going |-> TRUE, refused |-> {}] ELSE At(from[i + 1], i + 1)]
  <2>1. from = [i \in 0..Len(Cron!Fields) |-> IF i = Len(Cron!Fields) THEN [tm |-> tm, going |-> TRUE, refused |-> {}] ELSE At(from[i + 1], i + 1)]
    BY Zenon, <1>15 DEF At
  <2>2. Len(Cron!Fields) = 8
    BY CronNames
  <2> QED BY <2>1, <2>2
<1> HIDE DEF Is
<1>17. from[8] = w8 /\ \A i \in 1..8 : from[i - 1] = At(from[i], i)
  <2>1. from[8] = w8
    BY <1>1, <1>16
  <2>2. ASSUME NEW i \in 1..8 PROVE from[i - 1] = At(from[i], i)
    <3>1. i - 1 \in 0..8 /\ i - 1 # 8 /\ (i - 1) + 1 = i
      OBVIOUS
    <3> QED BY <1>16, <3>1
  <2> QED BY <2>1, <2>2
<1>18. from \in [0..8 -> Ways]
  <2>1. \A i \in 1..8 : from[i] \in Ways => from[i - 1] \in Ways
    BY <1>17, CronAt
  <2>2. from[7] \in Ways /\ from[6] \in Ways /\ from[5] \in Ways /\ from[4] \in Ways
    BY <1>17, <2>1
  <2>3. from[3] \in Ways /\ from[2] \in Ways /\ from[1] \in Ways /\ from[0] \in Ways
    BY <2>1, <2>2
  <2>4. \A i \in 0..8 : i = 0 \/ i = 1 \/ i = 2 \/ i = 3 \/ i = 4 \/ i = 5 \/ i = 6 \/ i = 7 \/ i = 8
    OBVIOUS
  <2>5. \A i \in 0..8 : from[i] \in Ways
    BY <1>17, <2>2, <2>3, <2>4
  <2>6. DOMAIN from = 0..8 /\ from = [i \in DOMAIN from |-> from[i]]
    BY <1>16
  <2> QED BY <2>5, <2>6
<1> QED BY <1>1, <1>15, <1>17, <1>18

\* The fields whose numbers Set takes, by their places; what a field is after
\* Next has gone on from it, or has stopped at it, from date d to date e.
Places == {1, 2, 3, 6, 7, 8}
Same(d, e, i) == Cron!Get(e, Cron!Fields[i]) = Cron!Get(d, Cron!Fields[i])
Wrapped(d, e, i) ==
  /\ Cron!Fields[i] \in Cron!Skipped(rule_) => Same(d, e, i)
  /\ Cron!Fields[i] \notin Cron!Skipped(rule_) =>
       /\ sub_rule_vec_[i].value # {} => Cron!Get(e, Cron!Fields[i]) \in sub_rule_vec_[i].value
       /\ \A v \in sub_rule_vec_[i].value : Cron!Get(e, Cron!Fields[i]) <= v /\ v <= Cron!Get(d, Cron!Fields[i])
Reached(d, e, i) ==
  /\ Cron!Get(d, Cron!Fields[i]) < Cron!Get(e, Cron!Fields[i])
  /\ sub_rule_vec_[i].value # {} => Cron!Get(e, Cron!Fields[i]) \in sub_rule_vec_[i].value
  /\ sub_rule_vec_[i].frequency \subseteq {1} => ~Cron!Between(Cron!Fields[i], Cron!Get(d, Cron!Fields[i]), Cron!Get(e, Cron!Fields[i]))
WeekOn(e) == "Week" \notin Cron!Skipped(rule_) /\ Cron!Sub("Week").value # {} => Cron!Get(e, "Week") \in Cron!Sub("Week").value

Going(i, d, e) ==
  /\ \A j \in Places : (j <= i => Same(d, e, j)) /\ (j > i => Wrapped(d, e, j))
  /\ Same(d, e, 5) /\ (i >= 5 => Same(d, e, 4)) /\ (i <= 3 => WeekOn(e))
StoppedAt(k, d, e) ==
  /\ Reached(d, e, k)
  /\ \A j \in Places : (j < k => Same(d, e, j)) /\ (j > k => Wrapped(d, e, j))
  /\ Same(d, e, 5) /\ WeekOn(e)
Passed(i, d, way) ==
  way.refused = {} => IF way.going THEN Going(i, d, way.tm) ELSE \E k \in Places : k > i /\ StoppedAt(k, d, way.tm)

LEMMA CronPlaces ==
  /\ Taken = {Cron!Fields[i] : i \in Places} /\ Places \subseteq 1..8 /\ Cron!Fields[4] = "Week" /\ Cron!Fields[5] = "DayOfWeek"
  /\ \A i \in 1..8 : i \in Places \/ i = 4 \/ i = 5
BY DEF Taken, Places, Cron!Fields

\* A field that takes the number that follows the one of d.
LEMMA CronTakes ==
  ASSUME RuleRight, Cron!Moves, NEW d \in Dates, Cron!OnRule(d), NEW e \in Dates, NEW i \in Places, Going(i, d, e),
         NEW s, Follows(s, Cron!Get(e, Cron!Fields[i]), sub_rule_vec_[i]), Cron!Fields[i] \notin Cron!Skipped(rule_),
         NEW e2, e2 = Cron!Set(e, s.to, Cron!Fields[i]), Cron!Get(e2, Cron!Fields[i]) = s.to
  PROVE  IF s.buckle THEN Going(i - 1, d, e2) ELSE StoppedAt(i, d, e2)
<1>1. PICK f \in Taken : f = Cron!Fields[i] /\ i \in 1..8 /\ f \in Cron!Names /\ Cron!Sub(f) = sub_rule_vec_[i]
  BY CronPlaces, CronNames
<1>2. PICK c \in Int : c = Cron!Get(d, f) /\ c = Cron!Get(e, f)
  BY <1>1, CronDates DEF Going, Same
<1>3. PICK to \in Int : to = s.to /\ Cron!Get(e2, f) = to
  BY <1>1 DEF Follows
<1>4. \A g \in Cron!Names : g # f => Cron!Get(e2, g) = Cron!Get(e, g)
  BY <1>1, <1>3, CronSets DEF Taken
<1>5. \A j \in 1..8 : j # i => Cron!Get(e2, Cron!Fields[j]) = Cron!Get(e, Cron!Fields[j])
  BY <1>1, <1>4, CronNames
<1>6. \A j \in Places : (j < i => Same(d, e2, j)) /\ (j > i => Wrapped(d, e2, j))
  <2>1. ASSUME NEW j \in Places, j < i PROVE Same(d, e2, j)
    BY <1>5, <2>1, CronPlaces DEF Going, Same, Places
  <2>2. ASSUME NEW j \in Places, j > i PROVE Wrapped(d, e2, j)
    BY <1>5, <2>2, CronPlaces DEF Going, Wrapped, Same, Places
  <2> QED BY <2>1, <2>2
<1>7. Same(d, e2, 5) /\ (i >= 5 => Same(d, e2, 4)) /\ Cron!Get(e2, "Week") = Cron!Get(e, "Week")
  BY <1>5, CronPlaces DEF Going, Same, Places
<1>8. WeekOn(e2)
  <2>1. CASE i <= 3
    BY <1>7, <2>1 DEF Going, WeekOn
  <2>2. CASE i >= 5
    <3>1. Cron!Get(e2, "Week") = Cron!Get(d, "Week") /\ "Week" \in Cron!Names
      BY <1>7, <2>2, CronPlaces, CronNames DEF Same
    <3> QED BY <3>1 DEF Cron!OnRule, WeekOn
  <2> QED BY <2>1, <2>2 DEF Places
<1>9. CASE s.buckle
  <2>1. Wrapped(d, e2, i)
    BY <1>1, <1>2, <1>3, <1>9 DEF Wrapped, Follows
  <2>2. \A j \in Places : (j <= i - 1 => j < i) /\ (j > i - 1 => j = i \/ j > i)
    BY DEF Places
  <2>3. i - 1 >= 5 => i >= 5
    BY DEF Places
  <2> QED BY <1>6, <1>7, <1>8, <1>9, <2>1, <2>2, <2>3 DEF Going
<1>10. CASE ~s.buckle
  <2>1. c < to /\ (sub_rule_vec_[i].value # {} => to \in sub_rule_vec_[i].value)
    <3>1. 0 \notin sub_rule_vec_[i].frequency
      BY <1>1 DEF Cron!Moves
    <3> QED BY <1>1, <1>2, <1>3, <1>10, <3>1 DEF Follows
  <2>2. ASSUME sub_rule_vec_[i].frequency \subseteq {1}, Cron!Between(f, c, to)
        PROVE  FALSE
    <3>1. PICK n \in c + 1..to - 1 : sub_rule_vec_[i].value = {} \/ n \in sub_rule_vec_[i].value
      BY <1>1, <2>2 DEF Cron!Between
    <3>2. sub_rule_vec_[i].value = {} => to = c + 1
      BY <1>1, <1>2, <1>3, <1>10, <2>2 DEF Follows
    <3>3. sub_rule_vec_[i].value # {} => n \notin sub_rule_vec_[i].value
      BY <1>1, <1>2, <1>3, <1>10, <3>1 DEF Follows
    <3> QED BY <3>1, <3>2, <3>3
  <2>3. Reached(d, e2, i)
    BY <1>1, <1>2, <1>3, <2>1, <2>2 DEF Reached
  <2> QED BY <1>6, <1>7, <1>8, <1>10, <2>3 DEF StoppedAt
<1> QED BY <1>9, <1>10

LEMMA CronPasses ==
  ASSUME RuleRight, Cron!Moves, NEW d \in Dates, Cron!OnRule(d), NEW i \in 1..8, NEW way \in Ways, Passed(i, d, way)
  PROVE  Passed(i - 1, d, At(way, i))
<1>1. PICK b2 \in Ways : b2 = At(way, i)
  BY CronAt
<1>2. way.refused \subseteq b2.refused
  BY <1>1, CronAt
<1> SUFFICES ASSUME b2.refused = {}
             PROVE  IF b2.going THEN Going(i - 1, d, b2.tm) ELSE \E k \in Places : k > i - 1 /\ StoppedAt(k, d, b2.tm)
  BY <1>1 DEF Passed
<1>3. way.refused = {}
  BY <1>2
<1>4. CASE ~way.going
  <2>1. PICK k \in Places : k > i /\ StoppedAt(k, d, way.tm)
    BY <1>3, <1>4 DEF Passed
  <2>2. b2 = way /\ k > i - 1
    BY <1>1, <1>4, <2>1, CronAt DEF Places
  <2> QED BY <1>4, <2>1, <2>2
<1>5. CASE way.going /\ Cron!Fields[i] \in Cron!Skipped(rule_)
  <2>1. b2 = way /\ Going(i, d, way.tm)
    BY <1>1, <1>3, <1>5, CronAt DEF Passed
  <2>2. i \in Places => Wrapped(d, way.tm, i)
    BY <1>5, <2>1 DEF Going, Wrapped
  <2>3. \A j \in Places : (j <= i - 1 => j <= i) /\ (j > i - 1 => j = i \/ j > i)
    BY DEF Places
  <2>4. i - 1 <= 3 => WeekOn(way.tm)
    <3>1. CASE i = 4
      BY <1>5, <3>1, CronPlaces DEF WeekOn
    <3>2. CASE i # 4
      BY <2>1, <3>2 DEF Going
    <3> QED BY <3>1, <3>2
  <2>5. Going(i - 1, d, way.tm)
    BY <2>1, <2>2, <2>3, <2>4 DEF Going
  <2> QED BY <1>5, <2>1, <2>5
<1>6. CASE way.going /\ Cron!Fields[i] \notin Cron!Skipped(rule_)
  <2>1. PICK s : /\ Follows(s, Cron!Get(way.tm, Cron!Fields[i]), sub_rule_vec_[i])
                 /\ b2.tm = Cron!Set(way.tm, s.to, Cron!Fields[i]) /\ b2.going = s.buckle
                 /\ Cron!Get(b2.tm, Cron!Fields[i]) = s.to
    BY <1>1, <1>6, CronAt
  <2>2. PICK e \in Dates : e = way.tm /\ Going(i, d, e)
    BY <1>3, <1>6 DEF Passed, Ways
  <2>3. PICK to \in Int : to = s.to
    BY <2>1 DEF Follows
  <2>4. CASE i \in Places
    <3>1. IF s.buckle THEN Going(i - 1, d, b2.tm) ELSE StoppedAt(i, d, b2.tm)
      BY <1>6, <2>1, <2>2, <2>4, CronTakes
    <3>2. i > i - 1
      OBVIOUS
    <3> QED BY <2>1, <2>4, <3>1, <3>2
  <2>5. CASE i = 5
    <3>1. \A g \in Cron!Names : g # "Week" => Cron!Get(b2.tm, g) = Cron!Get(e, g)
      BY <2>1, <2>2, <2>3, <2>5, CronPlaces, CronSetsDay
    <3>2. Cron!Get(e, "DayOfWeek") = to /\ "DayOfWeek" \in Cron!Names
      BY <2>1, <2>3, <2>5, <3>1, CronNames, CronPlaces
    <3>3. s.buckle
      <4>1. 0 \notin sub_rule_vec_[i].frequency
        BY <2>5, <3>2, CronNames, CronPlaces DEF Cron!Moves
      <4> QED BY <2>1, <2>2, <2>3, <2>5, <3>2, <4>1, CronPlaces DEF Follows
    <3>4. \A j \in 1..8 : j # 4 => Cron!Get(b2.tm, Cron!Fields[j]) = Cron!Get(e, Cron!Fields[j])
      BY <3>1, CronNames, CronPlaces
    <3>5. \A j \in Places : j # 4 /\ j \in 1..8 /\ (j <= 4 => j <= 5) /\ (j > 4 => j > 5)
      BY DEF Places
    <3>6. \A j \in Places : (j <= 4 => Same(d, b2.tm, j)) /\ (j > 4 => Wrapped(d, b2.tm, j))
      <4>1. ASSUME NEW j \in Places, j <= 4 PROVE Same(d, b2.tm, j)
        BY <2>2, <2>5, <3>4, <3>5, <4>1 DEF Going, Same
      <4>2. ASSUME NEW j \in Places, j > 4 PROVE Wrapped(d, b2.tm, j)
        BY <2>2, <2>5, <3>4, <3>5, <4>2 DEF Going, Wrapped, Same
      <4> QED BY <4>1, <4>2
    <3>7. Same(d, b2.tm, 5)
      BY <2>2, <3>4 DEF Going, Same
    <3>8. Going(4, d, b2.tm)
      BY <3>6, <3>7 DEF Going
    <3>9. i - 1 = 4
      BY <2>5
    <3> QED BY <2>1, <3>3, <3>8, <3>9
  <2>6. CASE i = 4
    <3>1. b2.tm = e
      BY <2>1, <2>2, <2>3, <2>6, CronPlaces, CronSetsWeek
    <3>2. Cron!Get(e, "Week") = to
      BY <2>1, <2>3, <2>6, <3>1, CronPlaces
    <3>3. 0 \notin sub_rule_vec_[i].frequency
      BY CronNames DEF Cron!Moves
    <3>4. s.buckle /\ (sub_rule_vec_[4].value # {} => to \in sub_rule_vec_[4].value)
      BY <2>1, <2>2, <2>3, <2>6, <3>2, <3>3, CronPlaces DEF Follows
    <3>5. WeekOn(e)
      BY <3>2, <3>4, CronNames, CronPlaces DEF WeekOn
    <3>6. \A j \in Places : (j <= 3 => j <= 4) /\ (j > 3 => j > 4)
      BY DEF Places
    <3>7. Going(3, d, e)
      BY <2>2, <2>6, <3>5, <3>6 DEF Going
    <3>8. i - 1 = 3
      BY <2>6
    <3> QED BY <2>1, <3>1, <3>4, <3>7, <3>8
  <2> QED BY <2>4, <2>5, <2>6, CronPlaces
<1> QED BY <1>4, <1>5, <1>6

\* The dates in their order, and the places of its fields.
LEMMA CronClock ==
  \E place \in [1..6 -> Places] :
    /\ \A m \in 1..6 : Cron!Clock[m] = Cron!Fields[place[m]]
    /\ \A k \in Places : \E m \in 1..6 : place[m] = k
    /\ \A m, n \in 1..6 : m < n <=> place[m] < place[n]
<1>1. PICK place : place = [m \in 1..6 |-> IF m <= 3 THEN m ELSE m + 2]
  OBVIOUS
<1>2. \A m \in 1..6 : m = 1 \/ m = 2 \/ m = 3 \/ m = 4 \/ m = 5 \/ m = 6
  OBVIOUS
<1>3. place[1] = 1 /\ place[2] = 2 /\ place[3] = 3 /\ place[4] = 6 /\ place[5] = 7 /\ place[6] = 8
  BY <1>1
<1>4. place \in [1..6 -> Places]
  BY <1>1, <1>2 DEF Places
<1>5. \A m \in 1..6 : Cron!Clock[m] = Cron!Fields[place[m]]
  BY <1>2, <1>3 DEF Cron!Clock, Cron!Fields
<1>6. \A k \in Places : \E m \in 1..6 : place[m] = k
  <2>1. 1 \in 1..6 /\ 2 \in 1..6 /\ 3 \in 1..6 /\ 4 \in 1..6 /\ 5 \in 1..6 /\ 6 \in 1..6
    OBVIOUS
  <2> QED BY <1>3, <2>1 DEF Places
<1>7. \A m, n \in 1..6 : m < n <=> place[m] < place[n]
  BY <1>1
<1> QED BY <1>4, <1>5, <1>6, <1>7

\* What date e is to date d, once Next has stopped.
After(d, e) ==
  /\ Cron!Before(d, e) /\ Cron!OnRule(e)
  /\ (\A f \in Cron!Names : Cron!Sub(f).frequency \subseteq {1}) =>
       \E k \in DOMAIN Cron!Clock :
         /\ \A j \in 1..k - 1 : Cron!Get(e, Cron!Clock[j]) = Cron!Get(d, Cron!Clock[j])
         /\ Cron!Get(e, Cron!Clock[k]) > Cron!Get(d, Cron!Clock[k])
         /\ ~Cron!Between(Cron!Clock[k], Cron!Get(d, Cron!Clock[k]), Cron!Get(e, Cron!Clock[k]))
         /\ \A j \in k + 1..Len(Cron!Clock) : \A v \in Cron!Sub(Cron!Clock[j]).value : v >= Cron!Get(e, Cron!Clock[j]) /\ v <= Cron!Get(d, Cron!Clock[j])

LEMMA CronAfter ==
  ASSUME RuleRight, NEW d \in Dates, Cron!OnRule(d), NEW e \in Dates, NEW at \in Places, StoppedAt(at, d, e)
  PROVE  After(d, e)
<1>1. PICK place \in [1..6 -> Places] :
        /\ \A m \in 1..6 : Cron!Clock[m] = Cron!Fields[place[m]]
        /\ \A k \in Places : \E m \in 1..6 : place[m] = k
        /\ \A m, n \in 1..6 : m < n <=> place[m] < place[n]
  BY CronClock
<1>2. PICK k \in 1..6 : place[k] = at
  BY <1>1
<1>3. DOMAIN Cron!Clock = 1..6 /\ Len(Cron!Clock) = 6 /\ \A m \in 1..6 : Cron!Clock[m] \in Cron!Names /\ place[m] \in Places /\ place[m] \in 1..8
  BY <1>1, CronNames, CronPlaces
<1>4. \A m \in 1..6 : Cron!Get(e, Cron!Clock[m]) \in Int /\ Cron!Get(d, Cron!Clock[m]) \in Int /\ Cron!Sub(Cron!Clock[m]) = sub_rule_vec_[place[m]]
                      /\ Cron!Sub(Cron!Clock[m]).value \subseteq Nat
  BY <1>1, <1>3, CronDates, CronNames DEF RuleRight, Numbers
<1>5. Cron!Clock[k] = Cron!Fields[at] /\ \A j \in 1..k - 1 : Cron!Get(e, Cron!Clock[j]) = Cron!Get(d, Cron!Clock[j])
  <2>1. ASSUME NEW j \in 1..k - 1 PROVE Cron!Get(e, Cron!Clock[j]) = Cron!Get(d, Cron!Clock[j])
    <3>1. j \in 1..6 /\ place[j] < at
      BY <1>1, <1>2
    <3> QED BY <1>1, <1>3, <3>1 DEF StoppedAt, Same
  <2> QED BY <1>1, <1>2, <2>1
<1>6. Cron!Get(d, Cron!Clock[k]) < Cron!Get(e, Cron!Clock[k])
  BY <1>5 DEF StoppedAt, Reached
<1>7. Cron!Before(d, e)
  BY <1>3, <1>4, <1>5, <1>6 DEF Cron!Before
<1>8. Cron!OnRule(e)
  <2>1. ASSUME NEW f \in Cron!Names \ Cron!Skipped(rule_), Cron!Sub(f).value # {} PROVE Cron!Get(e, f) \in Cron!Sub(f).value
    <3>1. PICK i \in 1..8 : f = Cron!Fields[i] /\ Cron!Sub(f) = sub_rule_vec_[i]
      BY CronNames DEF Cron!Names
    <3>2. CASE i \in Places
      <4>1. CASE i = at
        BY <2>1, <3>1, <4>1 DEF StoppedAt, Reached
      <4>2. CASE i < at
        BY <2>1, <3>1, <3>2, <4>2 DEF StoppedAt, Same, Cron!OnRule
      <4>3. CASE i > at
        BY <2>1, <3>1, <3>2, <4>3 DEF StoppedAt, Wrapped
      <4> QED BY <3>2, <4>1, <4>2, <4>3 DEF Places
    <3>3. CASE i = 5
      BY <2>1, <3>1, <3>3 DEF StoppedAt, Same, Cron!OnRule
    <3>4. CASE i = 4
      BY <2>1, <3>1, <3>4, CronPlaces DEF StoppedAt, WeekOn
    <3> QED BY <3>2, <3>3, <3>4, CronPlaces
  <2> QED BY <2>1 DEF Cron!OnRule
<1>9. ASSUME \A f \in Cron!Names : Cron!Sub(f).frequency \subseteq {1}
      PROVE  ~Cron!Between(Cron!Clock[k], Cron!Get(d, Cron!Clock[k]), Cron!Get(e, Cron!Clock[k]))
  BY <1>2, <1>3, <1>4, <1>5, <1>9 DEF StoppedAt, Reached
<1>10. ASSUME NEW j \in k + 1..6, NEW v \in Cron!Sub(Cron!Clock[j]).value
       PROVE  v >= Cron!Get(e, Cron!Clock[j]) /\ v <= Cron!Get(d, Cron!Clock[j])
  <2>1. j \in 1..6 /\ place[j] > at
    BY <1>1, <1>2
  <2>2. Wrapped(d, e, place[j]) /\ Cron!Clock[j] = Cron!Fields[place[j]] /\ Cron!Sub(Cron!Clock[j]) = sub_rule_vec_[place[j]]
    BY <1>1, <1>3, <1>4, <2>1 DEF StoppedAt
  <2>3. Cron!Clock[j] \notin Cron!Skipped(rule_)
    BY <1>3, <1>10, <2>1 DEF RuleRight
  <2>4. Cron!Get(e, Cron!Clock[j]) <= v /\ v <= Cron!Get(d, Cron!Clock[j])
    BY <1>10, <2>2, <2>3 DEF Wrapped
  <2>5. v \in Nat /\ Cron!Get(e, Cron!Clock[j]) \in Int
    BY <1>4, <1>10, <2>1
  <2> QED BY <2>4, <2>5
<1>11. Cron!Get(e, Cron!Clock[k]) > Cron!Get(d, Cron!Clock[k])
  BY <1>4, <1>6
<1> QED BY <1>3, <1>5, <1>7, <1>8, <1>9, <1>10, <1>11 DEF After

CronInv ==
  /\ rule_ \in CronRules /\ sub_rule_vec_ = Cron!Parse(rule_) /\ curr \in Dates /\ cron_next \in Dates
  /\ refused \subseteq Cron!Names /\ cron_ended \in BOOLEAN /\ cron_asked \in BOOLEAN
  /\ Cron!NextOnRule

LEMMA CronStart == Cron!Init => CronInv
BY CronConstants DEF Cron!Init, CronInv, Cron!NextOnRule, Dates

LEMMA CronMeans == CronInv => Cron!TypeOK /\ Cron!NextOnRule
BY DEF CronInv, Cron!TypeOK, Cron!Parse

LEMMA CronIdle == CronInv /\ UNCHANGED cron_vars => CronInv'
<1> SUFFICES ASSUME CronInv, UNCHANGED cron_vars PROVE CronInv'
  OBVIOUS
<1>1. (Cron!OnRule(curr)' => Cron!OnRule(curr)) /\ (Cron!Moves' => Cron!Moves)
  BY DEF Cron!OnRule, Cron!Sub, Cron!Moves, cron_vars
<1>2. After(curr, cron_next) => After(curr, cron_next)'
  BY DEF After, Cron!OnRule, Cron!Sub, Cron!Between, cron_vars
<1>3. Cron!NextOnRule'
  BY <1>1, <1>2 DEF CronInv, Cron!NextOnRule, After, cron_vars
<1> QED BY <1>3 DEF CronInv, cron_vars, Cron!Parse

LEMMA CronStep == ASSUME CronInv, Cron!Next PROVE CronInv'
<1>1. RuleRight
  BY CronRight DEF CronInv, Cron!Next
<1>2. PICK d \in Dates : d = cron_next
  BY DEF CronInv
<1>3. PICK w \in [0..8 -> Ways] :
        /\ w[8] = [tm |-> d, going |-> TRUE, refused |-> {}]
        /\ \A i \in 1..8 : w[i - 1] = At(w[i], i)
        /\ Cron!Walk(d) = w[0]
  BY <1>1, CronWalk
<1>4. cron_next' = w[0].tm /\ refused' = w[0].refused /\ cron_ended' = w[0].going /\ curr' = d /\ cron_asked' = TRUE
      /\ rule_' = rule_ /\ sub_rule_vec_' = sub_rule_vec_
  BY <1>2, <1>3 DEF Cron!Next
<1>5. w[0] \in Ways
  BY <1>3
<1>6. ASSUME Cron!OnRule(d), w[0].refused = {}, ~w[0].going, Cron!Moves
      PROVE  After(d, w[0].tm)
  <2>1. Passed(8, d, w[8])
    <3>1. Going(8, d, d)
      <4>1. WeekOn(d)
        BY <1>6, CronPlaces, CronNames DEF WeekOn, Cron!OnRule
      <4> QED BY <4>1 DEF Going, Same, Places
    <3> QED BY <1>3, <3>1 DEF Passed
  <2>2. \A i \in 1..8 : Passed(i, d, w[i]) => Passed(i - 1, d, w[i - 1])
    <3>1. \A i \in 1..8 : w[i] \in Ways
      BY <1>3
    <3> QED BY <1>1, <1>3, <1>6, <3>1, CronPasses
  <2>3. Passed(7, d, w[7])
    <3>1. 8 \in 1..8 /\ 8 - 1 = 7
      OBVIOUS
    <3>2. Passed(8 - 1, d, w[8 - 1])
      BY <2>1, <2>2, <3>1
    <3> QED BY <3>1, <3>2
  <2>4. Passed(6, d, w[6])
    BY <2>3, <2>2
  <2>5. Passed(5, d, w[5])
    BY <2>4, <2>2
  <2>6. Passed(4, d, w[4])
    BY <2>5, <2>2
  <2>7. Passed(3, d, w[3])
    BY <2>6, <2>2
  <2>8. Passed(2, d, w[2])
    BY <2>7, <2>2
  <2>9. Passed(1, d, w[1])
    BY <2>8, <2>2
  <2>10. Passed(0, d, w[0])
    BY <2>9, <2>2
  <2>11. PICK at \in Places : StoppedAt(at, d, w[0].tm)
    BY <1>6, <2>10 DEF Passed
  <2>12. w[0].tm \in Dates
    BY <1>5 DEF Ways
  <2> QED BY <1>1, <1>6, <2>11, <2>12, CronAfter
<1>7. Cron!NextOnRule'
  <2>1. (Cron!OnRule(curr)' => Cron!OnRule(d)) /\ (Cron!Moves' => Cron!Moves)
    BY <1>4 DEF Cron!OnRule, Cron!Sub, Cron!Moves
  <2>2. After(d, w[0].tm) => After(curr, cron_next)'
    BY <1>4 DEF After, Cron!OnRule, Cron!Sub, Cron!Between
  <2> QED BY <1>4, <1>6, <2>1, <2>2 DEF Cron!NextOnRule, After
<1>8. /\ rule_' \in CronRules /\ sub_rule_vec_' = Cron!Parse(rule_)' /\ curr' \in Dates /\ cron_next' \in Dates
      /\ refused' \subseteq Cron!Names /\ cron_ended' \in BOOLEAN /\ cron_asked' \in BOOLEAN
  BY <1>2, <1>4, <1>5 DEF CronInv, Ways, Cron!Parse
<1> QED BY <1>7, <1>8 DEF CronInv

TimesInv == (which = "cron" => CronInv) /\ (which = "time" => TimeInv)

LEMMA TimesHold == PartsSpec => []TimesInv
<1>1. PartsInit => TimesInv
  BY CronStart, TimeStart DEF PartsInit, TimesInv
<1>2. ASSUME TimesInv, PartsNext
      PROVE  TimesInv'
  BY <1>2, CronStep, TimeStep DEF PartsNext, TimesInv
<1>3. ASSUME TimesInv, UNCHANGED parts_vars
      PROVE  TimesInv'
  BY <1>3, CronIdle, TimeIdle DEF TimesInv, parts_vars
<1> QED BY <1>1, <1>2, <1>3, PTL DEF PartsSpec

\* For any rules and any dates to begin with: the date after one on the rule is
\* later and on the rule, and the first such when every frequency is one, but
\* for what Date does not take, a frequency of zero and a rule without a later
\* year (Crontab::Next); and for any second of two units or more, two fields
\* amount to what was added, taken and compared (Time), whatever the signs.
THEOREM TimesKept == PartsSpec => []TimesSound
<1>1. TimesInv => TimesSound
  BY CronMeans, TimeMeans DEF TimesInv, TimesSound
<1> QED BY <1>1, TimesHold, PTL

-----------------------------------------------------------------------------
(***************************************************************************)
(* The types that the invariants above leave out: nothing depends on them. *)
(***************************************************************************)
MachineBounds ==
  /\ efsm_inside \subseteq FsmStates /\ torn \in BOOLEAN /\ event_map_ \subseteq FsmEvents
  /\ state_map_ \subseteq FsmStates /\ DOMAIN trans_map_ \subseteq FsmEvents \X FsmStates
  /\ Len(efsm_stack) <= FsmDepth

LEMMA MachineBoundsStart == Fsm!Init => MachineBounds
<1>1. FsmDepth \in Nat
  BY PartsAssumption
<1>2. DOMAIN <<>> = {} /\ Len(<<>>) = 0
  BY SMT
<1>3. Len(<<>>) <= FsmDepth
  BY <1>1, <1>2
<1> QED BY <1>2, <1>3, Zenon DEF Fsm!Init, MachineBounds

LEMMA MachineTyped == MachineInv /\ MachineBounds => Fsm!TypeOK
BY DEF MachineInv, MachineTypes, MachineBounds, TriggerFrame, Phases, Fsm!TypeOK

LEMMA MachineBoundsStep == ASSUME MachineInv, MachineBounds, Fsm!Next PROVE MachineBounds'
<1>1. ASSUME UNCHANGED <<Fsm!tables, efsm_stack>>, efsm_inside' \subseteq FsmStates, torn' \in BOOLEAN PROVE MachineBounds'
  BY <1>1 DEF MachineBounds, Fsm!tables
<1>2. ASSUME UNCHANGED Fsm!tables, efsm_inside' \subseteq FsmStates, torn' \in BOOLEAN, Len(efsm_stack') <= FsmDepth
      PROVE  MachineBounds'
  BY <1>2 DEF MachineBounds, Fsm!tables
<1>3. ASSUME Fsm!Building, event_map_' \subseteq FsmEvents, state_map_' \subseteq FsmStates,
             DOMAIN trans_map_' \subseteq FsmEvents \X FsmStates
      PROVE  MachineBounds'
  BY <1>3 DEF Fsm!Building, MachineBounds
<1>4. Len(efsm_stack) \in Nat /\ FsmDepth \in Nat
  BY PartsAssumption DEF MachineInv, MachineTypes
<1>5. ASSUME efsm_stack # <<>>, Fsm!Pop PROVE Len(efsm_stack') <= FsmDepth
  <2>1. efsm_stack' \in Seq(TriggerFrame) /\ Len(efsm_stack') = Len(efsm_stack) - 1
    BY <1>5, FrontOf DEF MachineInv, MachineTypes, Fsm!Pop
  <2> QED BY <1>4, <2>1 DEF MachineBounds
<1>6. ASSUME NEW phase, Fsm!Goto(phase) PROVE Len(efsm_stack') <= FsmDepth
  <2>1. \E f : efsm_stack' = [efsm_stack EXCEPT ![Len(efsm_stack)] = f]
    BY <1>6 DEF Fsm!Goto
  <2> QED BY <2>1 DEF MachineInv, MachineTypes, MachineBounds
<1>7. ASSUME NEW e \in FsmEvents, Fsm!Trigger(e) PROVE MachineBounds'
  <2>1. PICK f : efsm_stack' = Append(efsm_stack, f)
    BY <1>7 DEF Fsm!Trigger
  <2>2. Len(efsm_stack') = Len(efsm_stack) + 1 /\ Len(efsm_stack) < FsmDepth
    BY <1>7, <2>1 DEF Fsm!Trigger, MachineInv, MachineTypes
  <2> QED BY <1>2, <1>4, <1>7, <2>2 DEF Fsm!Trigger, MachineBounds
<1>8. ASSUME NEW e \in FsmEvents, NEW s \in FsmStates, NEW to \in FsmStates,
             Fsm!AddTransition(e, s, to) \/ Fsm!DelTransition(e, s)
      PROVE  MachineBounds'
  BY <1>3, <1>8 DEF Fsm!AddTransition, Fsm!DelTransition, MachineBounds
<1>9. CASE Fsm!clear \/ (\E s \in FsmStates : Fsm!AddState(s)) \/ (\E e \in FsmEvents : Fsm!AddEvent(e))
  BY <1>3, <1>9 DEF Fsm!clear, Fsm!AddState, Fsm!AddEvent, MachineBounds
<1>10. ASSUME NEW s \in FsmStates, Fsm!changeStateForce(s) PROVE MachineBounds'
  BY <1>1, <1>10 DEF Fsm!changeStateForce
<1>11. CASE Fsm!CheckFails \/ Fsm!UpdateFails \/ Fsm!ExitFails \/ Fsm!EnterFails \/ Fsm!Complete \/ Fsm!CompleteFails
  BY <1>2, <1>5, <1>11 DEF Fsm!CheckFails, Fsm!UpdateFails, Fsm!ExitFails, Fsm!EnterFails, Fsm!Complete,
    Fsm!CompleteFails, Fsm!At, MachineBounds
<1>12. CASE Fsm!CheckDone \/ Fsm!UpdateDone \/ Fsm!ExitDone \/ Fsm!EnterDone
  <2>1. efsm_stack # <<>> => Fsm!Top.to \in FsmStates
    BY TriggerTop DEF TriggerFrame
  <2> QED BY <1>2, <1>6, <1>12, <2>1 DEF Fsm!CheckDone, Fsm!UpdateDone, Fsm!ExitDone, Fsm!EnterDone, Fsm!At, MachineBounds
<1>13. CASE Fsm!UpdateThrows
  BY <1>2, <1>4, <1>13 DEF Fsm!UpdateThrows, MachineBounds
<1> QED BY <1>7, <1>8, <1>9, <1>10, <1>11, <1>12, <1>13 DEF Fsm!Next

LEMMA MachineBoundsIdle == MachineBounds /\ UNCHANGED efsm_vars => MachineBounds'
BY DEF MachineBounds, efsm_vars

\* What the kernel refused is not in the maps, nor on its way there.
SignalBounds ==
  /\ DOMAIN register_map_ \cap SigsFixed = {} /\ sigs_inside \in BOOLEAN /\ crossed \subseteq SigNums
  /\ \A f \in Sig!Frames : old_action[f] # nil => Head(todo[f]).sig \notin SigsFixed

LEMMA SignalBoundsStart == Sig!Init => SignalBounds
<1>1. DOMAIN <<>> = {}
  BY SMT
<1> QED BY <1>1 DEF Sig!Init, SignalBounds

LEMMA SignalTyped == SignalInv /\ SignalBounds => Sig!TypeOK
<1> SUFFICES ASSUME SignalInv, SignalBounds PROVE Sig!TypeOK
  OBVIOUS
<1>1. ASSUME NEW f \in Sig!Frames, NEW i \in DOMAIN todo[f] PROVE todo[f][i] \in [sig : SigNums, new : Sig!Actions]
  <2>1. todo[f] \in Seq(SigEntry)
    BY DEF SignalInv, SignalTypes
  <2>2. todo[f][i] \in SigEntry
    BY <2>1
  <2> QED BY <2>2, Zenon DEF SigEntry
<1>2. DOMAIN register_map_ \subseteq SigNums \ SigsFixed
  BY DEF SignalInv, SignalTypes, SignalBounds
<1> QED BY <1>1, <1>2 DEF SignalInv, SignalTypes, SignalBounds, Sig!TypeOK

LEMMA SignalBoundsStep == ASSUME SignalInv, SignalBounds, Sig!Next PROVE SignalBounds'
<1>1. ASSUME NEW f \in Sig!Frames, NEW list, Sig!Begin(f, list) PROVE SignalBounds'
  BY <1>1 DEF Sig!Begin, Sig!Idle, SignalInv, SignalTypes, SignalFrames, SignalBounds
<1>2. ASSUME NEW f \in Sig!Frames,
             Sig!UnRegisterAll(f) \/ Sig!RevertAll(f)
               \/ (\E s \in SigNums : Sig!UnRegister(f, s) \/ Sig!Revert(f, s) \/ \E a \in SigHandlers : Sig!Register(f, s, a))
      PROVE  SignalBounds'
  BY <1>1, <1>2 DEF Sig!UnRegisterAll, Sig!RevertAll, Sig!UnRegister, Sig!Revert, Sig!Register
<1>3. CASE Sig!Deliver \/ Sig!HandlerReturns
  BY <1>3 DEF Sig!Deliver, Sig!HandlerReturns, SignalBounds
<1>4. ASSUME NEW f \in Sig!Frames, Sig!Sigaction(f) PROVE SignalBounds'
  <2>1. todo[f] # <<>> /\ Head(todo[f]).sig \notin SigsFixed
    BY <1>4 DEF Sig!Sigaction
  <2>2. todo[f] \in Seq(SigEntry)
    BY DEF SignalInv, SignalTypes
  <2>3. Head(todo[f]).sig \in SigNums
    <3>1. Head(todo[f]) \in SigEntry
      BY <2>1, <2>2, HeadTyped
    <3> QED BY <3>1 DEF SigEntry
  <2> QED BY <1>4, <2>1, <2>3 DEF Sig!Sigaction, SignalInv, SignalTypes, SignalBounds
<1>5. ASSUME NEW f \in Sig!Frames, Sig!SigactionFails(f) PROVE SignalBounds'
  BY <1>5 DEF Sig!SigactionFails, SignalInv, SignalTypes, SignalBounds
<1>6. ASSUME NEW f \in Sig!Frames, Sig!Record(f) PROVE SignalBounds'
  BY <1>6 DEF Sig!Record, Sig!Keep, Sig!Assign, SignalInv, SignalTypes, SignalBounds
<1> QED BY <1>2, <1>3, <1>4, <1>5, <1>6 DEF Sig!Next

LEMMA SignalBoundsIdle == SignalBounds /\ UNCHANGED sigs_vars => SignalBounds'
BY DEF SignalBounds, sigs_vars

MaskBounds ==
  /\ mask_by \in [Mask!Objects -> Procs \cup {nil}] /\ last_by \in [Mask!Objects -> Procs \cup {nil}]
  /\ calls \in 0..MaskCalls

LEMMA MaskBoundsStart == Mask!Init => MaskBounds
BY PartsAssumption DEF Mask!Init, MaskBounds

\* A call, the handler that broke into it and a call of that one.
LEMMA MaskTyped == MaskInv /\ MaskBounds => Mask!TypeOK
<1> SUFFICES ASSUME MaskInv, MaskBounds PROVE Mask!TypeOK
  OBVIOUS
<1>1. ASSUME NEW t \in Procs PROVE Len(masks_stack[t]) <= 3
  <2>1. /\ masks_stack[t] \in Seq(HandlerFrame \cup AskingFrame) /\ Nested(masks_stack[t])
    BY DEF MaskInv, MaskTypes
  <2>2. Len(masks_stack[t]) \in Nat /\ \A i \in 1..Len(masks_stack[t]) : masks_stack[t][i].kind \in {"handler", "asking"}
    BY <2>1 DEF HandlerFrame, AskingFrame
  <2> SUFFICES ASSUME Len(masks_stack[t]) >= 4 PROVE FALSE
    BY <2>2
  <2>3. {1, 2, 3, 4} \subseteq 1..Len(masks_stack[t])
    BY <2>2
  <2>4. masks_stack[t][1].kind = "handler" \/ masks_stack[t][2].kind = "handler"
    BY <2>1, <2>2, <2>3 DEF Nested
  <2>5. masks_stack[t][3].kind = "handler" \/ masks_stack[t][4].kind = "handler"
    BY <2>1, <2>2, <2>3 DEF Nested
  <2> QED BY <2>1, <2>3, <2>4, <2>5 DEF Nested
<1>2. kmask \in [Procs -> Mask!Sets]
  BY DEF MaskInv, MaskTypes, Blockable, Mask!Sets
<1> QED BY <1>1, <1>2 DEF MaskInv, MaskTypes, MaskBounds, Mask!TypeOK

LEMMA MaskBoundsStep == ASSUME MaskInv, MaskBounds, Mask!Next PROVE MaskBounds'
<1>1. ASSUME NEW t \in Procs, NEW o \in Mask!Objects, NEW new, Mask!Sigmask(t, o, new)
      PROVE  last_by' \in [Mask!Objects -> Procs \cup {nil}] /\ calls' \in 0..MaskCalls
  <2>1. MaskCalls \in Nat
    BY PartsAssumption
  <2> QED BY <1>1, <2>1 DEF Mask!Sigmask, MaskBounds
<1>2. ASSUME NEW t \in Procs, NEW o \in Mask!Objects, NEW set, Mask!Mask(t, o, set) \/ Mask!UnMask(t, o, set)
      PROVE  MaskBounds'
  BY <1>1, <1>2 DEF Mask!Mask, Mask!UnMask, Mask!Ask, MaskBounds
<1>3. ASSUME NEW t \in Procs, NEW o \in Mask!Objects, NEW set, Mask!MaskReplace(t, o, set) PROVE MaskBounds'
  BY <1>1, <1>3 DEF Mask!MaskReplace, MaskBounds
<1>4. ASSUME NEW t \in Procs, Mask!GetMask(t) PROVE MaskBounds'
  BY <1>4 DEF Mask!GetMask, MaskBounds
<1>5. ASSUME NEW t \in Procs, NEW s, Mask!Handler(t, s) \/ Mask!HandlerReturns(t) PROVE MaskBounds'
  BY <1>5 DEF Mask!Handler, Mask!HandlerReturns, Mask!kept, MaskBounds
<1>6. top \in Mask!Objects /\ \A t \in Procs : t \in Mask!Objects
  BY DEF Mask!Objects
<1> QED BY <1>2, <1>3, <1>4, <1>5, <1>6
        DEF Mask!Next, Mask!ProcessMask, Mask!ProcessUnMask, Mask!ProcessMaskReplace, Mask!ProcessMaskRevert,
            Mask!ThreadMask, Mask!ThreadUnMask, Mask!ThreadMaskReplace, Mask!ThreadMaskRevert, Mask!MaskRevert

LEMMA MaskBoundsIdle == MaskBounds /\ UNCHANGED masks_vars => MaskBounds'
BY DEF MaskBounds, masks_vars
=============================================================================
