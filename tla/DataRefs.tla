------------------------------ MODULE DataRefs ------------------------------
(***************************************************************************)
(* DataRefAccess<SimType> (src/inc/data_ref_access.h and                   *)
(* src/src/data_ref_access.cpp): objects that look up one of X-Plane's     *)
(* datarefs by name, read and write it, remember a value to detect changes *)
(* and may share the dataref with other plugins.                           *)
(*                                                                         *)
(* The model has several such objects, of this plugin or of others built   *)
(* on the same class, and one name in X-Plane's table.  What stands behind *)
(* the name is published by the simulator or a plugin, is made by the      *)
(* first object that shares it, or is an OwnedDataRef (data_ref_owned.h    *)
(* and .cpp), this plugin's or another's.  X-Plane's functions behave as   *)
(* src/dep/SDK/CHeaders/XPLM/XPLMDataAccess.h says: a read of a dataref    *)
(* that is absent, orphaned or of another type gives 0 or no items, and    *)
(* such a write, or one of a read-only dataref, is dropped.                *)
(*                                                                         *)
(* "ints" and "floats" are the vectors of them; std::string, an array of   *)
(* char with a terminator, is left out.  So is a read that starts inside   *)
(* an OwnedDataRef: DataRefAccess makes none.                              *)
(*                                                                         *)
(* Data is a sequence of numbers 0..Top, where Top stands for the largest  *)
(* number of the type; a scalar has length 1.  Floating data may also hold *)
(* NaN, and hasChanged() does not tell it from anything, nor numbers that  *)
(* are Epsilon or less apart.  The largest number is further than that     *)
(* from all others.                                                        *)
(***************************************************************************)
EXTENDS Integers, Sequences

CONSTANTS
  Users,     \* the DataRefAccess objects
  SimTypes,  \* the template arguments in use
  Top,       \* numeric_limits<T>::max()
  Epsilon,   \* numeric_limits<T>::epsilon()
  NaN,       \* what is not a number
  MaxLen,    \* bound: the longest array
  NoValue    \* stands for: nothing saved

ASSUME TypesAssumption  == SimTypes \subseteq {"int", "float", "double", "ints", "floats"}
ASSUME BoundsAssumption == Top \in Nat \ {0} /\ MaxLen \in Nat \ {0} /\ Epsilon \in Nat
ASSUME NaNAssumption    == NaN \notin Int
ASSUME NoValueAssumption == NoValue \notin Seq(Nat \cup {NaN})

VARIABLES
  dref,      \* the table's entry for the name
  value,     \* the data behind it
  sharers,   \* objects whose NotificationFunc X-Plane will call
  live,      \* objects that have been constructed and not destroyed
  acc,       \* the members of each object
  saved,     \* history: what save() recorded, as long as undo() promises it
  forced     \* history: how many items forceChanged() has set and nobody since

vars == <<dref, value, sharers, live, acc, saved, forced>>

Values  == 0 .. Top
Numbers == Values \cup {NaN}
ArraysOf(items) == UNION {[1 .. n -> items] : n \in 0 .. MaxLen}
Arrays  == ArraysOf(Numbers)
Zeros(n) == [i \in 1 .. n |-> 0]
ShorterOf(s, t) == IF Len(s) <= Len(t) THEN Len(s) ELSE Len(t)

\* What resize() makes of a vector.
Resized(s, n) == [i \in 1 .. n |-> IF i <= Len(s) THEN s[i] ELSE 0]

-----------------------------------------------------------------------------
(* X-Plane's table of datarefs. *)

XPLMTypes == {"Int", "Float", "Double", "IntArray", "FloatArray"}

\* The function that reads and writes is the one for this type.
AccessType(type) == CASE type = "int"    -> "Int"
                      [] type = "float"  -> "Float"
                      [] type = "double" -> "Double"
                      [] type = "ints"   -> "IntArray"
                      [] type = "floats" -> "FloatArray"

\* The types X-Plane must report for checkDataType to be content.
Declared(type) == IF type = "double" THEN {"Float", "Double"} ELSE {AccessType(type)}

\* The types XPLMShareData is told.
SharedAs(type) == {AccessType(type)}

\* What an item of such data can be.
Items(types) ==
  IF types \cap {"Float", "Double", "FloatArray"} # {} THEN Numbers ELSE Values

Contents(types) ==
  IF types \cap {"IntArray", "FloatArray"} # {} THEN ArraysOf(Items(types))
  ELSE [1 .. 1 -> Items(types)]

Absent ==
  [kind |-> "none", types |-> {}, readable |-> FALSE, writable |-> FALSE, up |-> FALSE]

Found == dref.kind # "none"

Reaches(u) ==
  /\ acc[u].bound /\ dref.up
  /\ AccessType(acc[u].type) \in dref.types

CanGet(u) == Reaches(u) /\ dref.readable

CanSet(u) == Reaches(u) /\ dref.writable

\* writeFunc and writeFuncVF: the value is replaced by as many items as are written,
\* and those are looked for from the offset on in the writer's memory, where what
\* comes after vals may be anything.
SetValue(offset, vals) ==
  {s \in [1 .. Len(vals) -> Items(dref.types)] :
     \A i \in 1 .. Len(vals) - offset : s[i] = vals[i + offset]}

\* What a write of the items vals from the offset on can leave behind elsewhere.  An
\* array keeps its size, unless it is shared: the SDK leaves open whether that grows.
WrittenInto(offset, vals) ==
  LET end   == offset + Len(vals)
      Sizes == IF dref.kind = "shared" /\ end > Len(value)
               THEN {Len(value), end} ELSE {Len(value)}
  IN {[i \in 1 .. n |-> IF offset < i /\ i <= end THEN vals[i - offset]
                        ELSE IF i <= Len(value) THEN value[i] ELSE 0] : n \in Sizes}

Stored(offset, vals) ==
  IF dref.kind = "owned" THEN SetValue(offset, vals) ELSE WrittenInto(offset, vals)

XPLMSetData(u, offset, vals) ==
  IF CanSet(u) THEN value' \in Stored(offset, vals) ELSE value' = value

-----------------------------------------------------------------------------
(* The members of an object. *)

IsArray(type) == type \in {"ints", "floats"}

Floating(type) == type \in {"float", "double", "floats"}

NotMade == [type |-> "int", rw |-> "ReadOnly", asked |-> FALSE, bound |-> FALSE,
            shared |-> FALSE, history |-> <<>>, cache |-> <<>>]

\* operator SimType()
Current(u) ==
  IF CanGet(u) THEN value
  ELSE IF IsArray(acc[u].type) THEN <<>> ELSE Zeros(1)

\* Arrays are read by way of cache_, scalars have none.
Refreshed(u) == IF IsArray(acc[u].type) THEN Current(u) ELSE <<>>

\* fabs(a - b) > epsilon, which is false of NaN.
Far(a, b) ==
  /\ a # NaN /\ b # NaN /\ a # b
  /\ Top \in {a, b} \/ a - b > Epsilon \/ b - a > Epsilon

Differs(type, a, b) == IF Floating(type) THEN Far(a, b) ELSE a # b

HasChanged(u) ==
  LET h == acc[u].history IN
  \/ Len(h) # Len(Current(u))
  \/ \E i \in 1 .. Len(h) : Differs(acc[u].type, Current(u)[i], h[i])

\* m_history is not initialised: a scalar may hold anything.
Uninitialised(type) == IF IsArray(type) THEN {<<>>} ELSE Contents(SharedAs(type))

-----------------------------------------------------------------------------
(* Construction and destruction. *)

\* XPLMShareData is called only for a name that X-Plane does not find.
Creates(share) == share /\ ~Found

Shared(type) ==
  [kind |-> "shared", types |-> SharedAs(type), readable |-> TRUE, writable |-> TRUE, up |-> TRUE]

\* What the constructor's body and initialisers do.
Made(u, type, rw, share) ==
  /\ dref' = IF Creates(share) THEN Shared(type) ELSE dref
  /\ IF Creates(share)
     THEN \E n \in 0 .. MaxLen : value' = Zeros(IF IsArray(type) THEN n ELSE 1)
     ELSE value' = value
  /\ sharers' = IF Creates(share) THEN sharers \cup {u} ELSE sharers
  /\ \E h \in Uninitialised(type) :
       acc' = [acc EXCEPT ![u] =
         [type |-> type, rw |-> rw, asked |-> share, bound |-> Found \/ share,
          shared |-> Creates(share), history |-> h, cache |-> <<>>]]
  /\ UNCHANGED <<saved, forced>>

\* Fault: the exception of checkDataType leaves the constructor, and the
\* object that X-Plane holds a pointer to never comes to be.
ConstructThrows(u, type, rw, share) ==
  /\ u \notin live
  /\ Made(u, type, rw, share)
  /\ live' = IF dref'.types = Declared(type) THEN live \cup {u} ELSE live

\* Whatever lookUp, checkDataType and checkWriteabilityIsValid find wrong is
\* caught: the object exists, bound to the dataref if there is one.
Construct(u, type, rw, share) ==
  /\ u \notin live
  /\ Made(u, type, rw, share)
  /\ live' = live \cup {u}

\* XPLMUnshareData; the SDK leaves open when the memory is freed.
Unshare(u) ==
  /\ sharers' = sharers \ {u}
  /\ \E up \in {dref.up} \cup (IF sharers = {u} THEN {FALSE} ELSE {}) :
       dref' = [dref EXCEPT !.up = up]

Destroy(u) ==
  /\ u \in live
  /\ live' = live \ {u}
  /\ IF acc[u].shared THEN Unshare(u) ELSE UNCHANGED <<sharers, dref>>
  /\ acc' = [acc EXCEPT ![u] = NotMade]
  /\ saved' = [saved EXCEPT ![u] = NoValue]
  /\ forced' = [forced EXCEPT ![u] = 0]
  /\ UNCHANGED value

-----------------------------------------------------------------------------
(* Reading and writing. *)

table == <<dref, sharers, live>>

\* Every conversion to SimType; hasChanged and operator[] make one too.
Read(u) ==
  /\ u \in live
  /\ acc' = [acc EXCEPT ![u].cache = Refreshed(u)]
  /\ UNCHANGED <<table, value, saved, forced>>

\* Fault: the last item is not written.
WriteShort(u, v) ==
  IF acc[u].rw = "ReadOnly" THEN value' = value
  ELSE XPLMSetData(u, 0, Resized(v, Len(v) - 1))

\* operator=(const SimType&)
Write(u, v) ==
  IF acc[u].rw = "ReadOnly" THEN value' = value ELSE XPLMSetData(u, 0, v)

Assign(u, v) ==
  /\ u \in live
  /\ Write(u, v)
  /\ UNCHANGED <<table, acc, saved, forced>>

\* operator=(const DataRefAccess&)
CopyFrom(u, w) ==
  /\ u \in live /\ w \in live /\ acc[u].type = acc[w].type
  /\ Write(u, Current(w))
  /\ acc' = [acc EXCEPT ![w].cache = Refreshed(w)]
  /\ UNCHANGED <<table, saved, forced>>

-----------------------------------------------------------------------------
(* The history. *)

Save(u) ==
  /\ u \in live
  /\ acc' = [acc EXCEPT ![u].history = Current(u), ![u].cache = Refreshed(u)]
  /\ saved' = [saved EXCEPT ![u] = Current(u)]
  /\ forced' = [forced EXCEPT ![u] = 0]
  /\ UNCHANGED <<table, value>>

Undo(u) ==
  /\ u \in live
  /\ Write(u, acc[u].history)
  /\ UNCHANGED <<table, acc, saved, forced>>

Comparable(u) == Len(acc[u].history) = Len(Current(u))

\* Fault: a value no variable of the type can hold.
ForcedPastTop(u) == [i \in 1 .. Len(acc[u].history) |-> Top + 1]

\* Fault: the comment taken at its word, an offset from what is there now.
ForcedOffset(u) ==
  [i \in 1 .. Len(acc[u].history) |-> IF Current(u)[i] = 0 THEN Top ELSE 0]

Forced(u) == [i \in 1 .. Len(acc[u].history) |-> Top]

\* forceChanged() leaves an array's history alone when the sizes differ.
ForceChanged(u) ==
  /\ u \in live
  /\ acc' = [acc EXCEPT ![u].history = IF Comparable(u) THEN Forced(u) ELSE @,
                        ![u].cache = Refreshed(u)]
  /\ saved' = [saved EXCEPT ![u] = IF Comparable(u) THEN NoValue ELSE @]
  /\ forced' = [forced EXCEPT ![u] = IF Comparable(u) THEN Len(acc[u].history) ELSE @]
  /\ UNCHANGED <<table, value>>

\* reserve()
Reserve(u) ==
  LET size == Len(Current(u)) IN
  /\ u \in live /\ IsArray(acc[u].type)
  /\ acc' = [acc EXCEPT ![u].history = Resized(@, size), ![u].cache = Resized(@, size)]
  /\ saved' = [saved EXCEPT ![u] = IF Len(acc[u].history) = size THEN @ ELSE NoValue]
  /\ forced' = [forced EXCEPT ![u] = IF @ <= size THEN @ ELSE size]
  /\ UNCHANGED <<table, value>>

\* reserve(i): it is the cache that grows, and it is written out.
ReserveItems(u, i) ==
  LET grown == Resized(acc[u].cache, IF Len(acc[u].cache) < i THEN i ELSE Len(acc[u].cache))
  IN /\ u \in live /\ IsArray(acc[u].type)
     /\ acc' = [acc EXCEPT ![u].cache = grown]
     /\ XPLMSetData(u, 0, SubSeq(grown, 1, i))
     /\ UNCHANGED <<table, saved, forced>>

ItemsOf(u) == Items(Declared(acc[u].type))

\* Fault: the whole cache is written, however old it is.
SetValFromCache(u, pos, val) ==
  /\ u \in live /\ IsArray(acc[u].type)
  /\ IF Len(acc[u].cache) <= pos THEN UNCHANGED <<acc, value>>
     ELSE /\ acc' = [acc EXCEPT ![u].cache[pos + 1] = val]
          /\ XPLMSetData(u, 0, [acc[u].cache EXCEPT ![pos + 1] = val])
  /\ UNCHANGED <<table, saved, forced>>

\* setVal on an array: out_of_range is thrown by the size of the cache.
\* (On a scalar it is operator=.)
SetVal(u, pos, val) ==
  /\ u \in live /\ IsArray(acc[u].type)
  /\ IF Len(acc[u].cache) <= pos THEN UNCHANGED <<acc, value>>
     ELSE /\ acc' = [acc EXCEPT ![u].cache[pos + 1] = val]
          /\ XPLMSetData(u, pos, <<val>>)
  /\ UNCHANGED <<table, saved, forced>>

-----------------------------------------------------------------------------
(* Everyone else. *)

objects == <<sharers, live, acc, saved, forced>>

\* The simulator, or a plugin, registers the dataref.
Publish(type, writable) ==
  /\ ~Found
  /\ dref' = [kind |-> "sim", types |-> Declared(type), readable |-> TRUE,
              writable |-> writable, up |-> TRUE]
  /\ value' \in Contents(Declared(type))
  /\ UNCHANGED objects

\* Its plugin goes, or comes back: the dataref is orphaned in between.
Unload ==
  /\ dref.kind = "sim"
  /\ dref' = [dref EXCEPT !.up = ~@]
  /\ UNCHANGED <<value, objects>>

\* OwnedDataRef's constructor: one accessor for each direction the owner allows, and
\* no value yet.
RegisterOwned(type, rw) ==
  /\ ~Found \/ (dref.kind = "owned" /\ ~dref.up)
  /\ dref' = [kind |-> "owned", types |-> SharedAs(type), readable |-> rw # "WriteOnly",
              writable |-> rw # "ReadOnly", up |-> TRUE]
  /\ value' = Zeros(IF IsArray(type) THEN 0 ELSE 1)
  /\ UNCHANGED objects

\* ~OwnedDataRef
Unregister ==
  /\ dref.kind = "owned" /\ dref.up
  /\ dref' = [dref EXCEPT !.up = FALSE]
  /\ UNCHANGED <<value, objects>>

\* The publisher, OwnedDataRef::operator= among them, or a plugin that does not use
\* DataRefAccess, writes.
OtherWrites ==
  /\ Found /\ dref.up
  /\ value' \in Contents(dref.types)
  /\ UNCHANGED <<dref, objects>>

-----------------------------------------------------------------------------
Init ==
  /\ dref = Absent /\ value = <<>> /\ sharers = {} /\ live = {}
  /\ acc = [u \in Users |-> NotMade]
  /\ saved = [u \in Users |-> NoValue] /\ forced = [u \in Users |-> 0]

RWTypes == {"ReadOnly", "WriteOnly", "ReadWrite"}

Next ==
  \/ \E type \in SimTypes, writable \in BOOLEAN : Publish(type, writable)
  \/ \E type \in SimTypes, rw \in RWTypes : RegisterOwned(type, rw)
  \/ Unload \/ Unregister
  \/ OtherWrites
  \/ \E u \in Users :
       \/ \E type \in SimTypes, rw \in RWTypes, share \in BOOLEAN : Construct(u, type, rw, share)
       \/ Destroy(u)
       \/ Read(u)
       \/ \E v \in Contents(Declared(acc[u].type)) : Assign(u, v)
       \/ \E w \in Users : CopyFrom(u, w)
       \/ Save(u)
       \/ Undo(u)
       \/ ForceChanged(u)
       \/ Reserve(u)
       \/ \E i \in 1 .. MaxLen : ReserveItems(u, i)
       \/ \E pos \in 0 .. MaxLen - 1, val \in ItemsOf(u) : SetVal(u, pos, val)

Spec == Init /\ [][Next]_vars

-----------------------------------------------------------------------------
Accessors == [type : SimTypes \cup {"int"}, rw : RWTypes, asked : BOOLEAN, bound : BOOLEAN,
              shared : BOOLEAN, history : Arrays, cache : Arrays]

Entries == [kind : {"none", "sim", "shared", "owned"}, types : SUBSET XPLMTypes,
            readable : BOOLEAN, writable : BOOLEAN, up : BOOLEAN]

\* Every variable holds values of its type; no array or history outgrows
\* what X-Plane or the object can hold.
TypeOK ==
  /\ dref \in Entries
  /\ value \in Arrays
  /\ sharers \subseteq Users /\ live \subseteq Users
  /\ acc \in [Users -> Accessors]
  /\ saved \in [Users -> Arrays \cup {NoValue}]
  /\ forced \in [Users -> 0 .. MaxLen]

\* X-Plane calls NotificationFunc with a pointer to an object: the objects it
\* may call are the ones that exist and will unshare when they are destroyed,
\* whatever went wrong in their constructors after XPLMShareData.
CallbacksReachLiveObjects == sharers = {u \in live : acc[u].shared}

\* forceChanged() makes "the next hasChanged" return true
\* (src/inc/data_ref_access.h:187), whatever is written, resized, orphaned or
\* reserved between the two; the exception is an array, or what reserve() has
\* left of it, that is empty or holds nothing but the largest number and NaN.
ForcedIsNoticed ==
  \A u \in live : forced[u] > 0 /\ ~HasChanged(u)
                  => \A i \in 1 .. forced[u] : Current(u)[i] \in {Top, NaN}

\* undo() brings back what save() found, item by item as far as the array
\* still goes, in a dataref this object may write.
UndoRestoresSaved ==
  [][\A u \in live :
       (saved[u] # NoValue /\ acc[u].rw # "ReadOnly" /\ CanSet(u) /\ Undo(u))
       => \A i \in 1 .. ShorterOf(saved[u], value') : value'[i] = saved[u][i]]_vars

\* setVal(pos, val) writes no item but that one, however long ago the cache
\* it works on was filled; not so where an OwnedDataRef takes the item for the
\* whole array.
SetValTouchesOneItem ==
  [][\A u \in live, pos \in 0 .. MaxLen - 1, val \in Numbers :
       dref.kind # "owned" /\ SetVal(u, pos, val)
       => \A i \in 1 .. Len(value) : i # pos + 1 => value'[i] = value[i]]_vars

-----------------------------------------------------------------------------
(* What the comments promise and the code does not keep. *)

\* What an object may do to the data.
WritesOf(u) ==
  \/ \E v \in Contents(Declared(acc[u].type)) : Assign(u, v)
  \/ \E w \in Users : CopyFrom(u, w)
  \/ Undo(u)
  \/ \E i \in 1 .. MaxLen : ReserveItems(u, i)
  \/ \E pos \in 0 .. MaxLen - 1, val \in ItemsOf(u) : SetVal(u, pos, val)

\* notify() is called "if the value of a shared dataref has been changed by
\* someone else" (src/inc/data_ref_access.h:201): an object that asked to
\* share the dataref is among those X-Plane calls when another writes it.
SharersAreNotified ==
  [][\A u, w \in live :
       (u # w /\ WritesOf(w) /\ value' # value /\ dref.kind = "shared" /\ acc[u].asked)
       => u \in sharers]_vars
=============================================================================
