--------------------------- MODULE DataRefsProofs ---------------------------
(***************************************************************************)
(* Proofs that X-Plane's callbacks reach objects that exist, that undo     *)
(* restores and that a forced change is noticed, for any number of         *)
(* objects, any largest number and epsilon and any length of arrays.       *)
(***************************************************************************)
EXTENDS DataRefs, SequenceTheorems, TLAPS

USE TypesAssumption, BoundsAssumption

-----------------------------------------------------------------------------
(* Arrays. *)

LEMMA ArrayIsSeq ==
  ASSUME NEW s
  PROVE  s \in Arrays <=> s \in Seq(Numbers) /\ Len(s) <= MaxLen
<1>1. ASSUME NEW n \in 0 .. MaxLen, s \in [1 .. n -> Numbers]
      PROVE  s \in Seq(Numbers) /\ Len(s) <= MaxLen
  <2>1. s \in Seq(Numbers)
    BY <1>1, SeqDef
  <2>2. DOMAIN s = 1 .. n /\ DOMAIN s = 1 .. Len(s) /\ Len(s) \in Nat
    BY <1>1, <2>1, LenProperties
  <2> QED
    BY <2>1, <2>2
<1>2. ASSUME s \in Seq(Numbers), Len(s) <= MaxLen
      PROVE  s \in Arrays
  BY <1>2, LenProperties DEF Arrays, ArraysOf
<1> QED
  BY <1>1, <1>2 DEF Arrays, ArraysOf

\* An array is given by its length and its items.
LEMMA ArrayIntro ==
  ASSUME NEW n \in 0 .. MaxLen, NEW s \in [1 .. n -> Numbers]
  PROVE  s \in Arrays /\ Len(s) = n
<1>1. s \in Arrays
  BY DEF Arrays, ArraysOf
<1>2. s \in Seq(Numbers)
  BY <1>1, ArrayIsSeq
<1>3. DOMAIN s = 1 .. n /\ DOMAIN s = 1 .. Len(s) /\ Len(s) \in Nat
  BY <1>2, LenProperties
<1> QED
  BY <1>1, <1>3

LEMMA ResizedTyped ==
  ASSUME NEW s \in Arrays, NEW n \in 0 .. MaxLen
  PROVE  /\ Resized(s, n) \in Arrays /\ Len(Resized(s, n)) = n
         /\ n = Len(s) => Resized(s, n) = s
<1>1. s \in Seq(Numbers) /\ Len(s) \in Nat /\ s \in [1 .. Len(s) -> Numbers]
  BY ArrayIsSeq, LenProperties
<1>2. Resized(s, n) \in [1 .. n -> Numbers]
  BY <1>1 DEF Resized, Numbers, Values
<1>3. ASSUME n = Len(s) PROVE Resized(s, n) = s
  BY <1>1, <1>3 DEF Resized
<1> QED
  BY <1>2, <1>3, ArrayIntro

LEMMA ZerosTyped ==
  ASSUME NEW n \in 0 .. MaxLen
  PROVE  Zeros(n) \in Arrays
<1>1. Zeros(n) \in [1 .. n -> Numbers]
  BY DEF Zeros, Numbers, Values
<1> QED
  BY <1>1, ArrayIntro

LEMMA ItemsAreNumbers == \A types : Items(types) \subseteq Numbers
  BY DEF Items, Numbers

LEMMA ContentsAreArrays == \A types : Contents(types) \subseteq Arrays
<1> SUFFICES ASSUME NEW types, NEW s \in Contents(types) PROVE s \in Arrays
  OBVIOUS
<1>1. PICK n \in 0 .. MaxLen : s \in [1 .. n -> Items(types)]
  <2>1. CASE types \cap {"IntArray", "FloatArray"} # {}
    BY <2>1 DEF Contents, ArraysOf
  <2>2. CASE ~(types \cap {"IntArray", "FloatArray"} # {})
    <3>1. s \in [1 .. 1 -> Items(types)] /\ 1 \in 0 .. MaxLen
      BY <2>2 DEF Contents
    <3> QED
      BY <3>1
  <2> QED
    BY <2>1, <2>2
<1>2. s \in [1 .. n -> Numbers]
  BY <1>1, ItemsAreNumbers
<1> QED
  BY <1>2, ArrayIntro

LEMMA EmptyIsArray == <<>> \in Arrays
<1>1. <<>> \in Seq(Numbers) /\ Len(<<>>) = 0
  BY EmptySeq
<1>2. Len(<<>>) <= MaxLen
  BY <1>1
<1> QED
  BY <1>1, <1>2, ArrayIsSeq, Zenon

LEMMA WrittenIntoTyped ==
  ASSUME NEW offset \in Nat, NEW vals \in Arrays, value \in Arrays,
         offset + Len(vals) <= MaxLen
  PROVE  WrittenInto(offset, vals) \subseteq Arrays
<1> DEFINE end == offset + Len(vals)
           Sizes == IF dref.kind = "shared" /\ end > Len(value)
                    THEN {Len(value), end} ELSE {Len(value)}
           Item(i) == IF offset < i /\ i <= end THEN vals[i - offset]
                      ELSE IF i <= Len(value) THEN value[i] ELSE 0
<1>1. /\ vals \in [1 .. Len(vals) -> Numbers] /\ Len(vals) \in Nat
      /\ value \in [1 .. Len(value) -> Numbers] /\ Len(value) \in 0 .. MaxLen
  BY ArrayIsSeq, LenProperties
<1>2. Sizes \subseteq 0 .. MaxLen
  BY <1>1
<1>3. ASSUME NEW n \in Sizes PROVE [i \in 1 .. n |-> Item(i)] \in Arrays
  <2>1. ASSUME NEW i \in 1 .. n PROVE Item(i) \in Numbers
    <3>1. CASE offset < i /\ i <= end
      <4>1. i - offset \in 1 .. Len(vals)
        BY <1>1, <3>1
      <4> QED
        BY <1>1, <3>1, <4>1
    <3>2. CASE ~(offset < i /\ i <= end) /\ i <= Len(value)
      <4>1. i \in 1 .. Len(value)
        BY <1>1, <3>2
      <4> QED
        BY <1>1, <3>2, <4>1
    <3>3. CASE ~(offset < i /\ i <= end) /\ ~(i <= Len(value))
      BY <3>3 DEF Numbers, Values
    <3> QED
      BY <3>1, <3>2, <3>3
  <2>2. [i \in 1 .. n |-> Item(i)] \in [1 .. n -> Numbers]
    BY <2>1
  <2> QED
    BY <1>2, <2>2, ArrayIntro
<1>4. WrittenInto(offset, vals) = {[i \in 1 .. n |-> Item(i)] : n \in Sizes}
  BY DEF WrittenInto
<1> QED
  BY <1>3, <1>4

LEMMA StoredTyped ==
  ASSUME NEW offset \in Nat, NEW vals \in Arrays, value \in Arrays,
         offset + Len(vals) <= MaxLen
  PROVE  Stored(offset, vals) \subseteq Arrays
<1>1. Len(vals) \in 0 .. MaxLen
  BY ArrayIsSeq, LenProperties
<1>2. SetValue(offset, vals) \subseteq Arrays
  <2> SUFFICES ASSUME NEW s \in [1 .. Len(vals) -> Items(dref.types)] PROVE s \in Arrays
    BY DEF SetValue
  <2>1. s \in [1 .. Len(vals) -> Numbers]
    BY ItemsAreNumbers
  <2> QED
    BY <1>1, <2>1, ArrayIntro
<1> QED
  BY <1>2, WrittenIntoTyped DEF Stored

-----------------------------------------------------------------------------
(* Types. *)

\* What one knows of an object, and of what it reads.
LEMMA ObjectTyped ==
  ASSUME TypeOK, NEW u \in Users
  PROVE  /\ acc[u] \in Accessors
         /\ acc[u].history \in Arrays /\ Len(acc[u].history) \in 0 .. MaxLen
         /\ acc[u].cache \in Arrays /\ Len(acc[u].cache) \in 0 .. MaxLen
         /\ Current(u) \in Arrays /\ Len(Current(u)) \in 0 .. MaxLen
         /\ Refreshed(u) \in Arrays
<1>1. acc[u] \in Accessors /\ value \in Arrays
  BY DEF TypeOK
<1>2. acc[u].history \in Arrays /\ acc[u].cache \in Arrays
  BY <1>1 DEF Accessors
<1>3. Zeros(1) \in Arrays
  BY ZerosTyped
<1>4. Current(u) \in Arrays /\ Refreshed(u) \in Arrays
  BY <1>1, <1>3, EmptyIsArray DEF Current, Refreshed
<1>5. \A s \in Arrays : Len(s) \in 0 .. MaxLen
  BY ArrayIsSeq, LenProperties
<1> QED
  BY <1>1, <1>2, <1>4, <1>5

LEMMA SetTyped ==
  ASSUME TypeOK, NEW u \in Users, NEW offset \in Nat, NEW vals \in Arrays,
         offset + Len(vals) <= MaxLen, XPLMSetData(u, offset, vals)
  PROVE  value' \in Arrays
<1>1. value \in Arrays
  BY DEF TypeOK
<1>2. Stored(offset, vals) \subseteq Arrays
  BY <1>1, StoredTyped
<1> QED
  BY <1>1, <1>2 DEF XPLMSetData

LEMMA WriteTyped ==
  ASSUME TypeOK, NEW u \in Users, NEW v \in Arrays, Write(u, v)
  PROVE  value' \in Arrays
<1>1. Len(v) \in Nat /\ 0 + Len(v) <= MaxLen
  BY ArrayIsSeq, LenProperties
<1>2. CASE acc[u].rw = "ReadOnly"
  BY <1>2 DEF Write, TypeOK
<1>3. CASE acc[u].rw # "ReadOnly"
  <2>1. XPLMSetData(u, 0, v)
    BY <1>3 DEF Write
  <2> QED
    BY <1>1, <2>1, SetTyped
<1> QED
  BY <1>2, <1>3

\* An object remains one when its history and cache are replaced by arrays.
LEMMA MembersReplaced ==
  ASSUME TypeOK, NEW u \in Users, NEW h \in Arrays, NEW c \in Arrays
  PROVE  [acc EXCEPT ![u].history = h, ![u].cache = c] \in [Users -> Accessors]
<1>1. acc \in [Users -> Accessors]
  BY DEF TypeOK
<1>2. [acc[u] EXCEPT !.history = h, !.cache = c] \in Accessors
  BY <1>1 DEF Accessors
<1> QED
  BY <1>1, <1>2

LEMMA CacheReplaced ==
  ASSUME TypeOK, NEW u \in Users, NEW c \in Arrays
  PROVE  [acc EXCEPT ![u].cache = c] \in [Users -> Accessors]
<1>1. acc \in [Users -> Accessors]
  BY DEF TypeOK
<1>2. [acc[u] EXCEPT !.cache = c] \in Accessors
  BY <1>1 DEF Accessors
<1> QED
  BY <1>1, <1>2

LEMMA ConstructTyped ==
  ASSUME TypeOK, NEW u \in Users, NEW type \in SimTypes, NEW rw \in RWTypes,
         NEW share \in BOOLEAN, Construct(u, type, rw, share)
  PROVE  TypeOK'
<1>1. dref' \in Entries
  BY DEF Construct, Made, Shared, SharedAs, AccessType, XPLMTypes, Entries, TypeOK
<1>2. value' \in Arrays
  <2>1. \A n \in 0 .. MaxLen : Zeros(IF IsArray(type) THEN n ELSE 1) \in Arrays
    BY ZerosTyped
  <2> QED
    BY <2>1 DEF Construct, Made, TypeOK
<1>3. sharers' \subseteq Users /\ live' \subseteq Users
  BY DEF Construct, Made, TypeOK
<1>4. acc' \in [Users -> Accessors]
  <2>1. Uninitialised(type) \subseteq Arrays
    BY ContentsAreArrays, EmptyIsArray DEF Uninitialised
  <2>2. ASSUME NEW h \in Uninitialised(type)
        PROVE [type |-> type, rw |-> rw, asked |-> share, bound |-> Found \/ share,
               shared |-> Creates(share), history |-> h, cache |-> <<>>] \in Accessors
    BY <2>1, EmptyIsArray DEF Accessors, Creates, Found
  <2> QED
    BY <2>2 DEF Construct, Made, TypeOK
<1>5. saved' = saved /\ forced' = forced
  BY DEF Construct, Made
<1> QED
  BY <1>1, <1>2, <1>3, <1>4, <1>5 DEF TypeOK

LEMMA NotMadeTyped == NotMade \in Accessors
  BY EmptyIsArray DEF NotMade, Accessors, RWTypes

LEMMA DestroyTyped ==
  ASSUME TypeOK, NEW u \in Users, Destroy(u)
  PROVE  TypeOK'
<1>1. dref' \in Entries
  BY DEF Destroy, Unshare, Entries, TypeOK
<1>2. sharers' \subseteq Users /\ live' \subseteq Users
  BY DEF Destroy, Unshare, TypeOK
<1>3. acc' \in [Users -> Accessors]
  BY NotMadeTyped DEF Destroy, TypeOK
<1>4. saved' \in [Users -> Arrays \cup {NoValue}] /\ value' = value
  BY DEF Destroy, TypeOK
<1>5. forced' \in [Users -> 0 .. MaxLen]
  BY DEF Destroy, TypeOK
<1> QED
  BY <1>1, <1>2, <1>3, <1>4, <1>5 DEF TypeOK

LEMMA ReserveItemsTyped ==
  ASSUME TypeOK, NEW u \in Users, NEW i \in 1 .. MaxLen, ReserveItems(u, i)
  PROVE  TypeOK'
<1> DEFINE n     == IF Len(acc[u].cache) < i THEN i ELSE Len(acc[u].cache)
           grown == Resized(acc[u].cache, n)
<1>1. n \in 0 .. MaxLen /\ i <= n
  BY ObjectTyped
<1>2. grown \in Arrays /\ Len(grown) = n /\ grown \in Seq(Numbers)
  BY <1>1, ObjectTyped, ResizedTyped, ArrayIsSeq
<1>3. acc' \in [Users -> Accessors]
  BY <1>2, CacheReplaced DEF ReserveItems
<1>4. value' \in Arrays
  <2>1. \A j \in 1 .. i : grown[j] \in Numbers
    BY <1>1, <1>2, ElementOfSeq
  <2>2. SubSeq(grown, 1, i) \in Seq(Numbers) /\ Len(SubSeq(grown, 1, i)) = i
    BY <2>1, SubSeqProperties
  <2>3. Len(SubSeq(grown, 1, i)) <= MaxLen /\ 0 + Len(SubSeq(grown, 1, i)) <= MaxLen
    BY <2>2
  <2>4. XPLMSetData(u, 0, SubSeq(grown, 1, i))
    BY DEF ReserveItems
  <2>5. SubSeq(grown, 1, i) \in Arrays
    BY <2>2, <2>3, ArrayIsSeq, Zenon
  <2> QED
    BY <2>3, <2>4, <2>5, SetTyped
<1> QED
  BY <1>3, <1>4 DEF ReserveItems, table, TypeOK

LEMMA SetValTyped ==
  ASSUME TypeOK, NEW u \in Users, NEW pos \in 0 .. MaxLen - 1, NEW val \in Numbers,
         SetVal(u, pos, val)
  PROVE  TypeOK'
<1>1. CASE Len(acc[u].cache) <= pos
  BY <1>1 DEF SetVal, table, TypeOK
<1>2. CASE ~(Len(acc[u].cache) <= pos)
  <2> DEFINE c == [acc[u].cache EXCEPT ![pos + 1] = val]
  <2>1. acc[u].cache \in Seq(Numbers) /\ Len(acc[u].cache) \in 0 .. MaxLen
    BY ObjectTyped, ArrayIsSeq
  <2>2. c \in Seq(Numbers) /\ Len(c) = Len(acc[u].cache)
    BY <1>2, <2>1, ExceptSeq
  <2>3. c \in Arrays
    BY <2>1, <2>2, ArrayIsSeq
  <2>4. acc' = [acc EXCEPT ![u].cache = c]
    BY <1>2 DEF SetVal
  <2>5. acc' \in [Users -> Accessors]
    BY <2>3, <2>4, CacheReplaced
  <2>6. <<val>> \in Arrays /\ Len(<<val>>) = 1
    <3>1. <<val>> \in Seq(Numbers) /\ Len(<<val>>) = 1
      OBVIOUS
    <3>2. Len(<<val>>) <= MaxLen
      BY <3>1
    <3> QED
      BY <3>1, <3>2, ArrayIsSeq, Zenon
  <2>7. XPLMSetData(u, pos, <<val>>)
    BY <1>2 DEF SetVal
  <2>8. value' \in Arrays
    <3>1. pos \in Nat /\ pos + Len(<<val>>) <= MaxLen
      BY <2>6
    <3> QED
      BY <2>6, <2>7, <3>1, SetTyped, Zenon
  <2> QED
    BY <2>5, <2>8 DEF SetVal, table, TypeOK
<1> QED
  BY <1>1, <1>2

\* What forceChanged() makes of the history.
LEMMA ForcedTyped ==
  ASSUME TypeOK, NEW u \in Users
  PROVE  /\ Forced(u) \in Arrays /\ Len(Forced(u)) = Len(acc[u].history)
         /\ \A i \in 1 .. Len(acc[u].history) : Forced(u)[i] = Top
<1>1. Len(acc[u].history) \in 0 .. MaxLen /\ Top \in Numbers
  BY ObjectTyped DEF Numbers, Values
<1>2. Forced(u) \in [1 .. Len(acc[u].history) -> Numbers]
  BY <1>1 DEF Forced
<1> QED
  BY <1>1, <1>2, ArrayIntro DEF Forced

LEMMA HistoryTyped ==
  ASSUME TypeOK, NEW u \in Users, Save(u) \/ ForceChanged(u) \/ Reserve(u)
  PROVE  TypeOK'
<1>1. /\ acc[u].history \in Arrays /\ Len(acc[u].history) \in 0 .. MaxLen
      /\ acc[u].cache \in Arrays
      /\ Current(u) \in Arrays /\ Len(Current(u)) \in 0 .. MaxLen /\ Refreshed(u) \in Arrays
  BY ObjectTyped
<1>2. forced' \in [Users -> 0 .. MaxLen]
  <2>1. forced \in [Users -> 0 .. MaxLen]
    BY DEF TypeOK
  <2>2. CASE Save(u)
    BY <2>1, <2>2 DEF Save
  <2>3. CASE ForceChanged(u)
    BY <1>1, <2>1, <2>3 DEF ForceChanged
  <2>4. CASE Reserve(u)
    BY <1>1, <2>1, <2>4 DEF Reserve
  <2> QED
    BY <2>2, <2>3, <2>4
<1>3. CASE Save(u)
  <2>1. acc' \in [Users -> Accessors]
    BY <1>1, <1>3, MembersReplaced DEF Save
  <2> QED
    BY <1>1, <1>2, <1>3, <2>1 DEF Save, table, TypeOK
<1>4. CASE ForceChanged(u)
  <2> DEFINE h == IF Comparable(u) THEN Forced(u) ELSE acc[u].history
  <2>1. h \in Arrays
    BY <1>1, ForcedTyped
  <2>2. acc' = [acc EXCEPT ![u].history = h, ![u].cache = Refreshed(u)]
    BY <1>4 DEF ForceChanged
  <2>3. acc' \in [Users -> Accessors]
    BY <1>1, <2>1, <2>2, MembersReplaced
  <2>4. saved' \in [Users -> Arrays \cup {NoValue}]
    BY <1>4 DEF ForceChanged, TypeOK
  <2> QED
    BY <1>2, <1>4, <2>3, <2>4 DEF ForceChanged, table, TypeOK
<1>5. CASE Reserve(u)
  <2> DEFINE size == Len(Current(u))
  <2>1. Resized(acc[u].cache, size) \in Arrays /\ Resized(acc[u].history, size) \in Arrays
    BY <1>1, ResizedTyped
  <2>2. acc' = [acc EXCEPT ![u].history = Resized(acc[u].history, size),
                           ![u].cache = Resized(acc[u].cache, size)]
    BY <1>5 DEF Reserve
  <2>3. acc' \in [Users -> Accessors]
    BY <2>1, <2>2, MembersReplaced
  <2> QED
    BY <1>2, <1>5, <2>3 DEF Reserve, table, TypeOK
<1> QED
  BY <1>3, <1>4, <1>5

\* The model is well typed: X-Plane and the objects hold arrays within bounds.
THEOREM DataRefsTypeCorrect == Spec => []TypeOK
<1>1. Init => TypeOK
  BY NotMadeTyped, EmptyIsArray DEF Init, Entries, TypeOK, Absent, XPLMTypes
<1>2. TypeOK /\ [Next]_vars => TypeOK'
  <2> SUFFICES ASSUME TypeOK, [Next]_vars PROVE TypeOK'
    OBVIOUS
  <2>1. ASSUME NEW type \in SimTypes, NEW writable \in BOOLEAN, Publish(type, writable)
        PROVE  TypeOK'
    BY <2>1, ContentsAreArrays DEF Publish, Declared, AccessType, XPLMTypes, objects, Entries, TypeOK
  <2>2. CASE Unload \/ Unregister
    BY <2>2 DEF Unload, Unregister, objects, Entries, TypeOK
  <2>3. CASE OtherWrites
    BY <2>3, ContentsAreArrays DEF OtherWrites, objects, TypeOK
  <2>4. ASSUME NEW u \in Users, NEW type \in SimTypes, NEW rw \in RWTypes,
               NEW share \in BOOLEAN, Construct(u, type, rw, share)
        PROVE  TypeOK'
    BY <2>4, ConstructTyped
  <2>5. ASSUME NEW u \in Users, Destroy(u) PROVE TypeOK'
    BY <2>5, DestroyTyped
  <2>6. ASSUME NEW u \in Users, Read(u) PROVE TypeOK'
    BY <2>6, ObjectTyped, CacheReplaced DEF Read, table, TypeOK
  <2>7. ASSUME NEW u \in Users, NEW v \in Contents(Declared(acc[u].type)), Assign(u, v)
        PROVE  TypeOK'
    <3>1. v \in Arrays /\ Write(u, v)
      BY <2>7, ContentsAreArrays DEF Assign
    <3>2. value' \in Arrays
      BY <3>1, WriteTyped
    <3> QED
      BY <2>7, <3>2 DEF Assign, table, TypeOK
  <2>8. ASSUME NEW u \in Users, NEW w \in Users, CopyFrom(u, w) PROVE TypeOK'
    <3>1. value' \in Arrays
      BY <2>8, ObjectTyped, WriteTyped DEF CopyFrom
    <3>2. acc' \in [Users -> Accessors]
      BY <2>8, ObjectTyped, CacheReplaced DEF CopyFrom
    <3> QED
      BY <2>8, <3>1, <3>2 DEF CopyFrom, table, TypeOK
  <2>9. ASSUME NEW u \in Users, Undo(u) PROVE TypeOK'
    <3>1. value' \in Arrays
      BY <2>9, ObjectTyped, WriteTyped DEF Undo
    <3> QED
      BY <2>9, <3>1 DEF Undo, table, TypeOK
  <2>10. ASSUME NEW u \in Users, Save(u) \/ ForceChanged(u) \/ Reserve(u) PROVE TypeOK'
    BY <2>10, HistoryTyped
  <2>11. ASSUME NEW u \in Users, NEW i \in 1 .. MaxLen, ReserveItems(u, i) PROVE TypeOK'
    BY <2>11, ReserveItemsTyped
  <2>12. ASSUME NEW u \in Users, NEW pos \in 0 .. MaxLen - 1, NEW val \in Numbers,
                SetVal(u, pos, val)
         PROVE  TypeOK'
    BY <2>12, SetValTyped
  <2>13. ASSUME NEW type \in SimTypes, NEW rw \in RWTypes, RegisterOwned(type, rw)
         PROVE  TypeOK'
    <3>1. value' \in Arrays
      BY <2>13, ZerosTyped DEF RegisterOwned
    <3>2. dref' \in Entries
      BY <2>13 DEF RegisterOwned, Entries, SharedAs, AccessType, XPLMTypes
    <3> QED
      BY <2>13, <3>1, <3>2 DEF RegisterOwned, objects, TypeOK
  <2>14. CASE UNCHANGED vars
    BY <2>14 DEF vars, TypeOK
  <2>15. \A u \in Users : ItemsOf(u) \subseteq Numbers
    BY ItemsAreNumbers DEF ItemsOf
  <2> QED
    BY <2>1, <2>2, <2>3, <2>4, <2>5, <2>6, <2>7, <2>8, <2>9, <2>10, <2>11, <2>12, <2>13, <2>14,
       <2>15 DEF Next
<1> QED
  BY <1>1, <1>2, PTL DEF Spec

-----------------------------------------------------------------------------
(* What no action of an object but its construction and destruction does. *)

SameSharing ==
  /\ sharers' = sharers /\ live' = live
  /\ \A u \in Users : acc'[u].shared = acc[u].shared

LEMMA SharingKept ==
  ASSUME TypeOK, [Next]_vars,
         ~ \E u \in Users : \/ Destroy(u)
                            \/ \E type \in SimTypes, rw \in RWTypes, share \in BOOLEAN :
                                 Construct(u, type, rw, share)
  PROVE  SameSharing
<1> USE DEF SameSharing, table, TypeOK, Accessors
<1>1. ASSUME NEW type \in SimTypes, NEW writable \in BOOLEAN, Publish(type, writable)
      PROVE  SameSharing
  BY <1>1 DEF Publish, objects
<1>2. CASE Unload \/ Unregister \/ OtherWrites
  BY <1>2 DEF Unload, Unregister, OtherWrites, objects
<1>3. ASSUME NEW u \in Users, Read(u) PROVE SameSharing
  BY <1>3 DEF Read
<1>4. ASSUME NEW u \in Users, NEW v, Assign(u, v) PROVE SameSharing
  BY <1>4 DEF Assign
<1>5. ASSUME NEW u \in Users, NEW w \in Users, CopyFrom(u, w) PROVE SameSharing
  BY <1>5 DEF CopyFrom
<1>6. ASSUME NEW u \in Users, Save(u) PROVE SameSharing
  BY <1>6 DEF Save
<1>7. ASSUME NEW u \in Users, Undo(u) PROVE SameSharing
  BY <1>7 DEF Undo
<1>8. ASSUME NEW u \in Users, ForceChanged(u) PROVE SameSharing
  BY <1>8 DEF ForceChanged
<1>9. ASSUME NEW u \in Users, Reserve(u) PROVE SameSharing
  BY <1>9 DEF Reserve
<1>10. ASSUME NEW u \in Users, NEW i \in 1 .. MaxLen, ReserveItems(u, i) PROVE SameSharing
  BY <1>10 DEF ReserveItems
<1>11. ASSUME NEW u \in Users, NEW pos \in 0 .. MaxLen - 1, NEW val \in Numbers,
              SetVal(u, pos, val)
       PROVE  SameSharing
  <2>1. acc' = acc \/ \E c : acc' = [acc EXCEPT ![u].cache = c]
    BY <1>11 DEF SetVal
  <2>2. \A c : \A w \in Users : [acc EXCEPT ![u].cache = c][w].shared = acc[w].shared
    OBVIOUS
  <2> QED
    BY <1>11, <2>1, <2>2 DEF SetVal
<1>12. CASE UNCHANGED vars
  BY <1>12 DEF vars
<1>13. ASSUME NEW type \in SimTypes, NEW rw \in RWTypes, RegisterOwned(type, rw)
      PROVE  SameSharing
  BY <1>13 DEF RegisterOwned, objects
<1> HIDE DEF SameSharing, table, TypeOK, Accessors
<1>14. \A u \in Users : ItemsOf(u) \subseteq Numbers
  BY ItemsAreNumbers DEF ItemsOf
<1> QED
  BY <1>1, <1>2, <1>3, <1>4, <1>5, <1>6, <1>7, <1>8, <1>9, <1>10, <1>11, <1>12, <1>13, <1>14
  DEF Next

\* The objects X-Plane may call back are those that exist and will unshare.
THEOREM NoDanglingCallback == Spec => []CallbacksReachLiveObjects
<1>1. Init => CallbacksReachLiveObjects
  BY DEF Init, CallbacksReachLiveObjects
<1>2. TypeOK /\ CallbacksReachLiveObjects /\ [Next]_vars => CallbacksReachLiveObjects'
  <2> SUFFICES ASSUME TypeOK, CallbacksReachLiveObjects, [Next]_vars
               PROVE  CallbacksReachLiveObjects'
    OBVIOUS
  <2>1. ASSUME NEW u \in Users, NEW type \in SimTypes, NEW rw \in RWTypes,
               NEW share \in BOOLEAN, Construct(u, type, rw, share)
        PROVE  CallbacksReachLiveObjects'
    <3>1. live' = live \cup {u} /\ u \notin live
      BY <2>1 DEF Construct
    <3>2. sharers' = IF Creates(share) THEN sharers \cup {u} ELSE sharers
      BY <2>1 DEF Construct, Made
    <3>3. acc'[u].shared = Creates(share) /\ \A w \in live : acc'[w] = acc[w]
      BY <2>1 DEF Construct, Made, TypeOK
    <3> QED
      BY <3>1, <3>2, <3>3 DEF CallbacksReachLiveObjects
  <2>2. ASSUME NEW u \in Users, Destroy(u) PROVE CallbacksReachLiveObjects'
    <3>1. live' = live \ {u} /\ u \in live
      BY <2>2 DEF Destroy
    <3>2. sharers' = IF acc[u].shared THEN sharers \ {u} ELSE sharers
      BY <2>2 DEF Destroy, Unshare
    <3>3. \A w \in live \ {u} : acc'[w] = acc[w]
      BY <2>2 DEF Destroy, TypeOK
    <3> QED
      BY <3>1, <3>2, <3>3 DEF CallbacksReachLiveObjects
  <2>3. CASE SameSharing
    BY <2>3 DEF SameSharing, CallbacksReachLiveObjects, TypeOK
  <2> QED
    BY <2>1, <2>2, <2>3, SharingKept
<1> QED
  BY <1>1, <1>2, DataRefsTypeCorrect, PTL DEF Spec

-----------------------------------------------------------------------------
(* What save() recorded is the history until forceChanged() or reserve()     *)
(* replaces that.                                                            *)

SavedIsHistory ==
  \A u \in Users : saved[u] # NoValue => u \in live /\ saved[u] = acc[u].history

SameHistory ==
  /\ saved' = saved /\ forced' = forced /\ live' = live
  /\ \A u \in Users : acc'[u].history = acc[u].history

LEMMA HistoryKept ==
  ASSUME TypeOK, [Next]_vars,
         ~ \E u \in Users :
              \/ Destroy(u) \/ Save(u) \/ ForceChanged(u) \/ Reserve(u)
              \/ \E type \in SimTypes, rw \in RWTypes, share \in BOOLEAN :
                   Construct(u, type, rw, share)
  PROVE  SameHistory
<1> USE DEF SameHistory, table, TypeOK, Accessors
<1>1. ASSUME NEW type \in SimTypes, NEW writable \in BOOLEAN, Publish(type, writable)
      PROVE  SameHistory
  BY <1>1 DEF Publish, objects
<1>2. CASE Unload \/ Unregister \/ OtherWrites
  BY <1>2 DEF Unload, Unregister, OtherWrites, objects
<1>3. ASSUME NEW u \in Users, Read(u) PROVE SameHistory
  BY <1>3 DEF Read
<1>4. ASSUME NEW u \in Users, NEW v, Assign(u, v) PROVE SameHistory
  BY <1>4 DEF Assign
<1>5. ASSUME NEW u \in Users, NEW w \in Users, CopyFrom(u, w) PROVE SameHistory
  BY <1>5 DEF CopyFrom
<1>6. ASSUME NEW u \in Users, Undo(u) PROVE SameHistory
  BY <1>6 DEF Undo
<1>7. ASSUME NEW u \in Users, NEW i \in 1 .. MaxLen, ReserveItems(u, i) PROVE SameHistory
  BY <1>7 DEF ReserveItems
<1>8. ASSUME NEW u \in Users, NEW pos \in 0 .. MaxLen - 1, NEW val \in Numbers,
             SetVal(u, pos, val)
      PROVE  SameHistory
  <2>1. saved' = saved /\ forced' = forced /\ live' = live
    BY <1>8 DEF SetVal
  <2>2. acc' = acc \/ \E c : acc' = [acc EXCEPT ![u].cache = c]
    BY <1>8 DEF SetVal
  <2>3. \A c : \A w \in Users : [acc EXCEPT ![u].cache = c][w].history = acc[w].history
    OBVIOUS
  <2> QED
    BY <2>1, <2>2, <2>3
<1>9. CASE UNCHANGED vars
  BY <1>9 DEF vars
<1>10. ASSUME NEW type \in SimTypes, NEW rw \in RWTypes, RegisterOwned(type, rw)
      PROVE  SameHistory
  BY <1>10 DEF RegisterOwned, objects
<1> HIDE DEF SameHistory, table, TypeOK, Accessors
<1>11. \A u \in Users : ItemsOf(u) \subseteq Numbers
  BY ItemsAreNumbers DEF ItemsOf
<1> QED
  BY <1>1, <1>2, <1>3, <1>4, <1>5, <1>6, <1>7, <1>8, <1>9, <1>10, <1>11 DEF Next

\* reserve() leaves a history of the right length as it is.
LEMMA ReserveKeepsHistory ==
  ASSUME TypeOK, NEW u \in Users, Reserve(u), saved'[u] # NoValue
  PROVE  acc'[u].history = acc[u].history /\ saved'[u] = saved[u]
<1>1. /\ acc[u].history \in Arrays /\ Len(Current(u)) \in 0 .. MaxLen
      /\ acc[u] \in Accessors
  BY ObjectTyped
<1>2. acc'[u].history = Resized(acc[u].history, Len(Current(u)))
  BY <1>1 DEF Reserve, TypeOK, Accessors
<1>3. Len(acc[u].history) = Len(Current(u)) /\ saved'[u] = saved[u]
  BY DEF Reserve, TypeOK
<1> QED
  BY <1>1, <1>2, <1>3, ResizedTyped

LEMMA SavedIsHistoryStep ==
  ASSUME TypeOK, SavedIsHistory, [Next]_vars
  PROVE  SavedIsHistory'
<1> USE DEF SavedIsHistory
<1>1. ASSUME NEW u \in Users, NEW type \in SimTypes, NEW rw \in RWTypes,
             NEW share \in BOOLEAN, Construct(u, type, rw, share)
      PROVE  SavedIsHistory'
  BY <1>1 DEF Construct, Made, TypeOK
<1>2. ASSUME NEW u \in Users, Destroy(u) PROVE SavedIsHistory'
  BY <1>2 DEF Destroy, TypeOK
<1>3. ASSUME NEW u \in Users, Save(u) PROVE SavedIsHistory'
  BY <1>3 DEF Save, table, TypeOK, Accessors
<1>4. ASSUME NEW u \in Users, ForceChanged(u) PROVE SavedIsHistory'
  <2>1. \A w \in Users : saved'[w] # NoValue
                         => acc'[w].history = acc[w].history /\ saved'[w] = saved[w]
    BY <1>4 DEF ForceChanged, TypeOK, Accessors
  <2> QED
    BY <1>4, <2>1 DEF ForceChanged, table
<1>5. ASSUME NEW u \in Users, Reserve(u) PROVE SavedIsHistory'
  <2>1. saved'[u] # NoValue => acc'[u].history = acc[u].history /\ saved'[u] = saved[u]
    BY <1>5, ReserveKeepsHistory
  <2>2. \A w \in Users \ {u} : acc'[w] = acc[w] /\ saved'[w] = saved[w]
    BY <1>5 DEF Reserve, TypeOK
  <2>3. live' = live
    BY <1>5 DEF Reserve, table
  <2> QED
    BY <2>1, <2>2, <2>3
<1>6. CASE SameHistory
  BY <1>6 DEF SameHistory
<1> QED
  BY <1>1, <1>2, <1>3, <1>4, <1>5, <1>6, HistoryKept

\* What save() found stays in the history until it is replaced on purpose.
THEOREM HistoryIsWhatWasSaved == Spec => []SavedIsHistory
<1>1. Init => SavedIsHistory
  BY DEF Init, SavedIsHistory
<1>2. TypeOK /\ SavedIsHistory /\ [Next]_vars => SavedIsHistory'
  BY SavedIsHistoryStep
<1> QED
  BY <1>1, <1>2, DataRefsTypeCorrect, PTL DEF Spec

-----------------------------------------------------------------------------
(* What forceChanged() set stays in the history until save() replaces it and *)
(* as far as reserve() leaves it.                                            *)

ForcedIsHistory ==
  \A u \in Users :
     /\ u \notin live => forced[u] = 0
     /\ \A i \in 1 .. forced[u] : i <= Len(acc[u].history) /\ acc[u].history[i] = Top

LEMMA ForcedIsHistoryStep ==
  ASSUME TypeOK, ForcedIsHistory, [Next]_vars
  PROVE  ForcedIsHistory'
<1> USE DEF ForcedIsHistory
<1>1. ASSUME NEW u \in Users, NEW type \in SimTypes, NEW rw \in RWTypes,
             NEW share \in BOOLEAN, Construct(u, type, rw, share)
      PROVE  ForcedIsHistory'
  <2>1. forced' = forced /\ live' = live \cup {u} /\ forced[u] = 0
    BY <1>1 DEF Construct, Made
  <2>2. \A w \in Users \ {u} : acc'[w] = acc[w]
    BY <1>1 DEF Construct, Made, TypeOK
  <2> QED
    BY <2>1, <2>2
<1>2. ASSUME NEW u \in Users, Destroy(u) PROVE ForcedIsHistory'
  <2>1. forced'[u] = 0 /\ live' = live \ {u}
    BY <1>2 DEF Destroy, TypeOK
  <2>2. \A w \in Users \ {u} : acc'[w] = acc[w] /\ forced'[w] = forced[w]
    BY <1>2 DEF Destroy, TypeOK
  <2> QED
    BY <2>1, <2>2
<1>3. ASSUME NEW u \in Users, Save(u) PROVE ForcedIsHistory'
  <2>1. forced'[u] = 0 /\ live' = live
    BY <1>3 DEF Save, table, TypeOK
  <2>2. \A w \in Users \ {u} : acc'[w] = acc[w] /\ forced'[w] = forced[w]
    BY <1>3 DEF Save, TypeOK
  <2> QED
    BY <2>1, <2>2
<1>4. ASSUME NEW u \in Users, ForceChanged(u) PROVE ForcedIsHistory'
  <2>1. u \in live /\ live' = live
    BY <1>4 DEF ForceChanged, table
  <2>2. \A w \in Users \ {u} : acc'[w] = acc[w] /\ forced'[w] = forced[w]
    BY <1>4 DEF ForceChanged, TypeOK
  <2>3. /\ acc'[u].history = IF Comparable(u) THEN Forced(u) ELSE acc[u].history
        /\ forced'[u] = IF Comparable(u) THEN Len(acc[u].history) ELSE forced[u]
    BY <1>4 DEF ForceChanged, TypeOK, Accessors
  <2>4. Len(Forced(u)) = Len(acc[u].history) /\ Len(acc[u].history) \in Nat
    BY ForcedTyped, ObjectTyped
  <2>5. \A i \in 1 .. Len(acc[u].history) : Forced(u)[i] = Top
    BY ForcedTyped
  <2>6. \A i \in 1 .. forced'[u] : i <= Len(acc'[u].history) /\ acc'[u].history[i] = Top
    BY <2>3, <2>4, <2>5
  <2> QED
    BY <2>1, <2>2, <2>6
<1>5. ASSUME NEW u \in Users, Reserve(u) PROVE ForcedIsHistory'
  <2> DEFINE size == Len(Current(u))
             h    == acc[u].history
  <2>1. u \in live /\ live' = live
    BY <1>5 DEF Reserve, table
  <2>2. \A w \in Users \ {u} : acc'[w] = acc[w] /\ forced'[w] = forced[w]
    BY <1>5 DEF Reserve, TypeOK
  <2>3. /\ acc'[u].history = Resized(h, size)
        /\ forced'[u] = IF forced[u] <= size THEN forced[u] ELSE size
    BY <1>5 DEF Reserve, TypeOK, Accessors
  <2>4. size \in 0 .. MaxLen /\ h \in Arrays /\ forced[u] \in Nat /\ Len(h) \in Nat
    BY ObjectTyped DEF TypeOK
  <2>5. Len(Resized(h, size)) = size
    BY <2>4, ResizedTyped
  <2>6. ASSUME NEW i \in 1 .. forced'[u]
        PROVE  i <= Len(acc'[u].history) /\ acc'[u].history[i] = Top
    <3>1. i \in 1 .. size /\ i \in 1 .. forced[u]
      BY <2>3, <2>4
    <3>2. i <= Len(h) /\ h[i] = Top
      BY <3>1
    <3>3. Resized(h, size)[i] = h[i]
      BY <3>1, <3>2 DEF Resized
    <3> QED
      BY <2>3, <2>4, <2>5, <3>1, <3>2, <3>3
  <2> QED
    BY <2>1, <2>2, <2>6
<1>6. CASE SameHistory
  BY <1>6 DEF SameHistory
<1> QED
  BY <1>1, <1>2, <1>3, <1>4, <1>5, <1>6, HistoryKept

\* After forceChanged(), hasChanged() says yes of all data but the largest
\* number and NaN.
THEOREM ForcedChangesNoticed == Spec => []ForcedIsNoticed
<1>1. Init => ForcedIsHistory
  <2>1. Init => \A u \in Users : forced[u] = 0
    BY DEF Init
  <2>2. \A i \in 1 .. 0 : FALSE
    OBVIOUS
  <2> QED
    BY <2>1, <2>2, Zenon DEF ForcedIsHistory
<1>2. TypeOK /\ ForcedIsHistory /\ [Next]_vars => ForcedIsHistory'
  BY ForcedIsHistoryStep
<1>3. TypeOK /\ ForcedIsHistory => ForcedIsNoticed
  <2> SUFFICES ASSUME TypeOK, ForcedIsHistory, NEW u \in live, ~HasChanged(u),
                      NEW i \in 1 .. forced[u]
               PROVE  Current(u)[i] \in {Top, NaN}
    BY DEF ForcedIsNoticed
  <2> DEFINE h    == acc[u].history
             type == acc[u].type
             now  == Current(u)[i]
  <2>1. u \in Users /\ forced[u] \in Nat
    BY DEF TypeOK
  <2>2. i <= Len(h) /\ h[i] = Top
    BY <2>1 DEF ForcedIsHistory
  <2>3. i \in 1 .. Len(h)
    BY <2>1, <2>2, ObjectTyped
  <2>4. ~Differs(type, now, Top)
    BY <2>2, <2>3 DEF HasChanged
  <2>5. Top # NaN
    BY NaNAssumption
  <2> QED
    BY <2>4, <2>5 DEF Differs, Far
<1> QED
  BY <1>1, <1>2, <1>3, DataRefsTypeCorrect, PTL DEF Spec

-----------------------------------------------------------------------------
(* Writes. *)

\* undo() puts back what save() found.
THEOREM UndoPutsBackSaved == Spec => UndoRestoresSaved
<1> DEFINE Restored == \A u \in live :
              (saved[u] # NoValue /\ acc[u].rw # "ReadOnly" /\ CanSet(u) /\ Undo(u))
              => \A i \in 1 .. ShorterOf(saved[u], value') : value'[i] = saved[u][i]
<1>1. TypeOK /\ SavedIsHistory /\ [Next]_vars => [Restored]_vars
  <2> SUFFICES ASSUME TypeOK, SavedIsHistory, NEW u \in live, Undo(u),
                      acc[u].rw # "ReadOnly", CanSet(u), saved[u] # NoValue,
                      NEW i \in 1 .. ShorterOf(saved[u], value')
               PROVE  value'[i] = saved[u][i]
    OBVIOUS
  <2> DEFINE h == acc[u].history
  <2>1. u \in Users /\ saved[u] = h
    BY DEF TypeOK, SavedIsHistory
  <2>2. h \in Arrays /\ Len(h) \in Nat /\ value \in Arrays
    BY <2>1, ObjectTyped DEF TypeOK
  <2>3. value' \in Stored(0, h)
    BY DEF Undo, Write, XPLMSetData
  <2>4. Len(value) \in 0 .. MaxLen
    BY <2>2, ArrayIsSeq, LenProperties
  <2>5. value' \in Arrays
    BY <2>1, <2>2, WriteTyped DEF Undo
  <2>6. value' \in Seq(Numbers)
    BY <2>5, ArrayIsSeq
  <2>7. DOMAIN value' = 1 .. Len(value') /\ Len(value') \in Nat
    BY <2>6, LenProperties
  <2>8. i \in 1 .. Len(h) /\ i \in DOMAIN value'
    BY <2>1, <2>2, <2>7 DEF ShorterOf
  <2>9. CASE dref.kind = "owned"
    <3>1. value' \in SetValue(0, h)
      BY <2>3, <2>9 DEF Stored
    <3> QED
      BY <2>1, <2>2, <2>8, <3>1 DEF SetValue
  <2>10. CASE dref.kind # "owned"
    <3>1. value' \in WrittenInto(0, h)
      BY <2>3, <2>10 DEF Stored
    <3>2. PICK n \in Nat : value' = [j \in 1 .. n |->
                 IF 0 < j /\ j <= 0 + Len(h) THEN h[j - 0]
                 ELSE IF j <= Len(value) THEN value[j] ELSE 0]
      BY <2>2, <2>4, <3>1 DEF WrittenInto
    <3> QED
      BY <2>1, <2>2, <2>8, <3>2
  <2> QED
    BY <2>9, <2>10
<1> QED
  BY <1>1, DataRefsTypeCorrect, HistoryIsWhatWasSaved, PTL DEF Spec, UndoRestoresSaved

\* setVal() writes the item it is given and leaves the others.
THEOREM OneItemWritten == Spec => SetValTouchesOneItem
<1> DEFINE Kept == \A u \in live, pos \in 0 .. MaxLen - 1, val \in Numbers :
              dref.kind # "owned" /\ SetVal(u, pos, val)
              => \A i \in 1 .. Len(value) : i # pos + 1 => value'[i] = value[i]
<1>1. TypeOK /\ [Next]_vars => [Kept]_vars
  <2> SUFFICES ASSUME TypeOK, NEW u \in live, NEW pos \in 0 .. MaxLen - 1,
                      NEW val \in Numbers, SetVal(u, pos, val), dref.kind # "owned",
                      NEW i \in 1 .. Len(value), i # pos + 1
               PROVE  value'[i] = value[i]
    OBVIOUS
  <2>1. Len(value) \in Nat
    BY ArrayIsSeq, LenProperties DEF TypeOK
  <2>2. value' = value \/ value' \in WrittenInto(pos, <<val>>)
    BY DEF SetVal, XPLMSetData, Stored
  <2>3. ASSUME value' \in WrittenInto(pos, <<val>>) PROVE value'[i] = value[i]
    <3>1. Len(<<val>>) = 1
      OBVIOUS
    <3>2. PICK n \in Nat : /\ n >= Len(value)
                          /\ value' = [j \in 1 .. n |->
                                IF pos < j /\ j <= pos + 1 THEN <<val>>[j - pos]
                                ELSE IF j <= Len(value) THEN value[j] ELSE 0]
      BY <2>1, <2>3, <3>1 DEF WrittenInto
    <3> QED
      BY <2>1, <3>2
  <2> QED
    BY <2>2, <2>3
<1> QED
  BY <1>1, DataRefsTypeCorrect, PTL DEF Spec, SetValTouchesOneItem
=============================================================================
