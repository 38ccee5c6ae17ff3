------------------------------ MODULE AclCache ------------------------------
(***************************************************************************)
(* The ACL rights cache of src/plugins/acl/acl-cache.c.                    *)
(*                                                                         *)
(* A right name gets a fixed index the first time it is looked up          *)
(* (right_idx_name_map, right_name_idx_map); a set of rights is a bitmask  *)
(* of bytes (struct acl_mask: size bytes, bit idx % CHAR_BIT of byte       *)
(* idx / CHAR_BIT).  Every cached object has, per ACL id type, a positive  *)
(* and a negative mask, and the lazily computed my_current_rights.  Masks  *)
(* live on the heap: a mask is an id into heap, so that the pointer        *)
(* comparisons and frees of acl_cache_update_rights_mask() are kept.       *)
(***************************************************************************)
EXTENDS Naturals, Sequences, SequencesExt

CONSTANTS
  Objects, IdTypes, UserAuthenticated, UserGroups, UserName, Inputs, NULL,
  CharBit,   \* CHAR_BIT, taken smaller so that masks of several bytes occur
  MaskIds    \* heap addresses available to masks

VARIABLES
  names,     \* right_idx_name_map: idx => right name
  nameIdx,   \* right_name_idx_map: name => idx + 1
  objs,      \* objects hash: name => NULL or [masks, current]
  heap,      \* allocated masks: address => [size, bits]
  call,      \* history: the last update or flush call, as in AclRights
  alive,     \* FALSE once acl_cache_deinit() has run
  held       \* per object, the pointer acl_cache_get_my_rights() last
             \* returned to the caller, or NULL

vars == <<names, nameIdx, objs, heap, call, alive, held>>

Slots == {"pos", "neg"} \X IdTypes
NoObject == [masks |-> [s \in Slots |-> NULL], current |-> NULL]

Abstract == INSTANCE AclRights WITH rights <- [o \in Objects |-> NULL], call <- <<>>
Applies(r) == Abstract!Applies(r)

\* The bits of a mask that lie in its first n bytes.
LowBits(m, n) == {i \in m.bits : i \div CharBit < n}

\* The heap after malloc(): a free address holds m.
NewId(h) == CHOOSE a \in MaskIds \ DOMAIN h : TRUE
Alloc(h, m) == h @@ (NewId(h) :> m)
Free(h, a) == [b \in DOMAIN h \ {a} |-> h[b]]

-----------------------------------------------------------------------------
(***************************************************************************)
(* Right names and masks.  st is [names, nameIdx, heap, obj]: the state a  *)
(* call of acl_cache_update() threads through its steps.                   *)
(***************************************************************************)
\* The lookup with the index stored without its +1.
RightLookupNoOffset(st, r) ==
  IF r \in DOMAIN st.nameIdx THEN [st |-> st, idx |-> st.nameIdx[r] - 1]
  ELSE LET idx == Len(st.names)
       IN [st |-> [st EXCEPT !.names = Append(@, r), !.nameIdx = @ @@ (r :> idx)],
           idx |-> idx]

\* acl_cache_right_lookup(): a new name is appended with the next index.
RightLookup(st, r) ==
  IF r \in DOMAIN st.nameIdx THEN [st |-> st, idx |-> st.nameIdx[r] - 1]
  ELSE LET idx == Len(st.names)
       IN [st |-> [st EXCEPT !.names = Append(@, r), !.nameIdx = @ @@ (r :> idx + 1)],
           idx |-> idx]

\* One iteration of acl_cache_mask_init(): set the bit of right r, growing
\* the buffer to the byte holding it.
MaskInitStep(acc, r) ==
  LET l == RightLookup(acc.st, r)
  IN [st |-> l.st,
      mask |-> [size |-> IF l.idx \div CharBit + 1 > acc.mask.size
                         THEN l.idx \div CharBit + 1 ELSE acc.mask.size,
                bits |-> acc.mask.bits \cup {l.idx}]]

\* acl_cache_mask_init(): the mask of a list of rights, on the heap.
MaskInit(st, list) ==
  LET m == FoldLeft(MaskInitStep, [st |-> st, mask |-> [size |-> 0, bits |-> {}]], list)
  IN [st |-> [m.st EXCEPT !.heap = Alloc(@, m.mask)], id |-> NewId(m.st.heap)]

\* The merge loop of the ADD mode with its bound one byte short.
MergeShort(h, old, change) ==
  IF h[old].size >= h[change].size
  THEN [new |-> old, changed |-> TRUE,
        heap |-> [h EXCEPT ![old].bits = @ \cup LowBits(h[change], h[change].size)]]
  ELSE [new |-> change, changed |-> TRUE,
        heap |-> [h EXCEPT ![change].bits = @ \cup LowBits(h[old], h[old].size - 1)]]

\* The ADD merge taken as no change when the old mask is kept.
MergeKeepUnchanged(h, old, change) ==
  IF h[old].size >= h[change].size
  THEN [new |-> old, changed |-> FALSE,
        heap |-> [h EXCEPT ![old].bits = @ \cup LowBits(h[change], h[change].size)]]
  ELSE [new |-> change, changed |-> TRUE,
        heap |-> [h EXCEPT ![change].bits = @ \cup LowBits(h[old], h[old].size)]]

\* The ADD merge with the size comparison reversed: the shorter mask is kept.
MergeKeepShorter(h, old, change) ==
  IF h[old].size <= h[change].size
  THEN [new |-> old, changed |-> TRUE,
        heap |-> [h EXCEPT ![old].bits = @ \cup LowBits(h[change], h[change].size)]]
  ELSE [new |-> change, changed |-> TRUE,
        heap |-> [h EXCEPT ![change].bits = @ \cup LowBits(h[old], h[old].size)]]

\* "merge the masks": the longer mask is kept and gets the other's bits.
Merge(h, old, change) ==
  IF h[old].size >= h[change].size
  THEN [new |-> old, changed |-> TRUE,
        heap |-> [h EXCEPT ![old].bits = @ \cup LowBits(h[change], h[change].size)]]
  ELSE [new |-> change, changed |-> TRUE,
        heap |-> [h EXCEPT ![change].bits = @ \cup LowBits(h[old], h[old].size)]]

\* The switch on the modify mode: new_mask, changed, and the heap after the
\* bits of the old or the change mask are rewritten in place.
ModifyMask(h, mode, old, change) ==
  CASE mode = "ADD" ->
         IF old = NULL THEN [new |-> change, changed |-> TRUE, heap |-> h]
         ELSE IF change = NULL THEN [new |-> old, changed |-> FALSE, heap |-> h]
         ELSE Merge(h, old, change)
    [] mode = "REMOVE" ->
         IF old = NULL \/ change = NULL THEN [new |-> old, changed |-> FALSE, heap |-> h]
         ELSE LET n == IF h[old].size < h[change].size THEN h[old].size ELSE h[change].size
              IN [new |-> old, changed |-> TRUE,
                  heap |-> [h EXCEPT ![old].bits = @ \ LowBits(h[change], n)]]
    [] mode = "REPLACE" ->
         [new |-> change, changed |-> ~(old = NULL /\ change = NULL), heap |-> h]

\* The frees with the one of an unused change mask left out.
ReleaseLeakChange(h, old, new, change) ==
  IF new # old /\ old # NULL THEN Free(h, old) ELSE h

\* The replaced old mask and an unused change mask are freed.
Release(h, old, new, change) ==
  LET h1 == IF new # old /\ old # NULL THEN Free(h, old) ELSE h
  IN IF new # change /\ change # NULL THEN Free(h1, change) ELSE h1

\* acl_cache_update_rights_mask() on slot s: the change mask is built, the
\* mode decides the new mask, the unused masks are freed and
\* my_current_rights is dropped if anything changed.
UpdateRightsMask(st0, mode, list, s) ==
  LET ci == IF list = NULL THEN [st |-> st0, id |-> NULL] ELSE MaskInit(st0, list)
      st == ci.st
      old == st.obj.masks[s]
      r == ModifyMask(st.heap, mode, old, ci.id)
      h == Release(r.heap, old, r.new, ci.id)
      drop == r.changed /\ st.obj.current # NULL
  IN [st EXCEPT !.heap = IF drop THEN Free(h, st.obj.current) ELSE h,
                !.obj = [masks |-> [st.obj.masks EXCEPT ![s] = r.new],
                         current |-> IF drop THEN NULL ELSE st.obj.current]]

\* acl_cache_my_current_rights_recalculate(): the OR of the positive and
\* the negative masks of every id type, as long as the longest of them.
Recalculate(obj, h) ==
  LET ms == {h[obj.masks[s]] : s \in {s \in Slots : obj.masks[s] # NULL}}
  IN [size |-> FoldSet(LAMBDA m, acc : IF m.size > acc THEN m.size ELSE acc, 0, ms),
      bits |-> UNION {m.bits : m \in ms}]

\* The heap addresses an object holds.
Held(obj) == ({obj.masks[s] : s \in Slots} \cup {obj.current}) \ {NULL}

-----------------------------------------------------------------------------
(***************************************************************************)
(* The operations.                                                         *)
(***************************************************************************)
\* The right names the updates carry.
RightNames == UNION {ToSet(l) : l \in ({r.rights : r \in Inputs} \cup {r.neg_rights : r \in Inputs}) \ {NULL}}

\* acl_cache_init()
Init ==
  /\ names = <<>>
  /\ nameIdx = [r \in {} |-> 0]
  /\ objs = [o \in Objects |-> NULL]
  /\ heap = [a \in {} |-> NoObject]
  /\ call = <<>>
  /\ alive = TRUE
  /\ held = [o \in Objects |-> NULL]

\* acl_cache_update_rights(): the positive, then the negative rights.
UpdateRights(st, r) ==
  UpdateRightsMask(UpdateRightsMask(st, r.modify_mode, r.rights, <<"pos", r.id_type>>),
                   r.neg_modify_mode, r.neg_rights, <<"neg", r.id_type>>)

\* The update with the current rights dropped before the id type is
\* checked, whether or not the update applies.
UpdateDropFirst(o, r) ==
  /\ alive
  /\ LET obj == IF objs[o] = NULL THEN NoObject ELSE objs[o]
         h0 == IF obj.current = NULL THEN heap ELSE Free(heap, obj.current)
         st0 == [names |-> names, nameIdx |-> nameIdx, heap |-> h0,
                 obj |-> [obj EXCEPT !.current = NULL]]
         st == IF Applies(r) THEN UpdateRights(st0, r) ELSE st0
     IN /\ names' = st.names
        /\ nameIdx' = st.nameIdx
        /\ heap' = st.heap
        /\ objs' = [objs EXCEPT ![o] = st.obj]
        /\ call' = <<o, r>>
  /\ UNCHANGED <<alive, held>>

\* acl_cache_update(): the object is created if missing, then updated if
\* the backend's user has the update's id type.
Update(o, r) ==
  /\ alive
  /\ LET st0 == [names |-> names, nameIdx |-> nameIdx, heap |-> heap,
                 obj |-> IF objs[o] = NULL THEN NoObject ELSE objs[o]]
         st == IF Applies(r) THEN UpdateRights(st0, r) ELSE st0
     IN /\ names' = st.names
        /\ nameIdx' = st.nameIdx
        /\ heap' = st.heap
        /\ objs' = [objs EXCEPT ![o] = st.obj]
        /\ call' = <<o, r>>
  /\ UNCHANGED <<alive, held>>

\* acl_cache_right_lookup() of a name not known yet, as the backend and
\* acl_cache_mask_init() for the backend's own masks call it.
LookupRight(r) ==
  /\ alive
  /\ r \notin DOMAIN nameIdx
  /\ LET l == RightLookup([names |-> names, nameIdx |-> nameIdx], r)
     IN /\ names' = l.st.names
        /\ nameIdx' = l.st.nameIdx
  /\ UNCHANGED <<objs, heap, call, alive, held>>

\* acl_cache_flush() of a cached object: its masks are freed.
Flush(o) ==
  /\ alive
  /\ objs[o] # NULL
  /\ heap' = [a \in DOMAIN heap \ Held(objs[o]) |-> heap[a]]
  /\ objs' = [objs EXCEPT ![o] = NULL]
  /\ call' = <<o>>
  /\ UNCHANGED <<names, nameIdx, alive, held>>

\* acl_cache_flush_all()
FlushAll ==
  /\ alive
  /\ heap' = [a \in DOMAIN heap \ UNION {Held(objs[o]) : o \in {o \in Objects : objs[o] # NULL}} |-> heap[a]]
  /\ objs' = [o \in Objects |-> NULL]
  /\ call' = <<>>
  /\ UNCHANGED <<names, nameIdx, alive, held>>

\* acl_cache_get_my_rights(): NULL for an object not cached, else the
\* current rights, computed first if they are not; the caller keeps the
\* returned pointer.
GetMyRights(o) ==
  /\ alive
  /\ \/ /\ objs[o] = NULL
        /\ held' = [held EXCEPT ![o] = NULL]
        /\ UNCHANGED <<objs, heap>>
     \/ /\ objs[o] # NULL
        /\ objs[o].current = NULL
        /\ heap' = Alloc(heap, Recalculate(objs[o], heap))
        /\ objs' = [objs EXCEPT ![o].current = NewId(heap)]
        /\ held' = [held EXCEPT ![o] = NewId(heap)]
     \/ /\ objs[o] # NULL
        /\ objs[o].current # NULL
        /\ held' = [held EXCEPT ![o] = objs[o].current]
        /\ UNCHANGED <<objs, heap>>
  /\ UNCHANGED <<names, nameIdx, call, alive>>

\* acl_cache_deinit(): the name maps and the objects hash are destroyed;
\* hash_destroy() does not free the object caches the hash still holds.
\* The cached rights are gone, as after a flush of all objects.
Deinit ==
  /\ alive
  /\ alive' = FALSE
  /\ names' = <<>>
  /\ nameIdx' = [r \in {} |-> 0]
  /\ objs' = [o \in Objects |-> NULL]
  /\ call' = <<>>
  /\ UNCHANGED <<heap, held>>

Next ==
  \/ \E o \in Objects, r \in Inputs : Update(o, r)
  \/ \E r \in RightNames : LookupRight(r)
  \/ \E o \in Objects : Flush(o)
  \/ FlushAll
  \/ \E o \in Objects : GetMyRights(o)
  \/ Deinit

Spec == Init /\ [][Next]_vars

-----------------------------------------------------------------------------
(***************************************************************************)
(* Properties.                                                             *)
(***************************************************************************)
Mask == [size : Nat, bits : SUBSET Nat]

TypeOK ==
  /\ names \in Seq(RightNames)
  /\ DOMAIN nameIdx \subseteq RightNames /\ \A r \in DOMAIN nameIdx : nameIdx[r] \in Nat
  /\ \A o \in Objects : objs[o] = NULL \/ objs[o] \in [masks : [Slots -> MaskIds \cup {NULL}],
                                                       current : MaskIds \cup {NULL}]
  /\ DOMAIN heap \subseteq MaskIds /\ \A a \in DOMAIN heap : heap[a] \in Mask
  /\ alive \in BOOLEAN
  /\ held \in [Objects -> MaskIds \cup {NULL}]
  /\ call \in {<<>>} \cup {<<o>> : o \in Objects} \cup (Objects \X Inputs)

\* Every pointer the cache holds: a slot or the current rights of an object.
Refs == {<<o, s>> : o \in {o \in Objects : objs[o] # NULL}, s \in Slots \cup {"current"}}
Addr(x) == IF x[2] = "current" THEN objs[x[1]].current ELSE objs[x[1]].masks[x[2]]

\* Across any sequence of updates, flushes and lookups, the masks on the
\* heap are exactly those the live cache points to, each from one place: no
\* mask is leaked, freed while still pointed to, or shared (which the
\* frees of acl_cache_update_rights_mask would turn into a double free).
HeapOwnership ==
  alive =>
    /\ DOMAIN heap = {Addr(x) : x \in Refs} \ {NULL}
    /\ \A x, y \in Refs : Addr(x) = Addr(y) /\ Addr(x) # NULL => x = y

\* A computed my_current_rights is never stale: it is what
\* acl_cache_my_current_rights_recalculate would compute from the masks now.
CurrentRightsCoherent ==
  \A o \in Objects : objs[o] # NULL /\ objs[o].current # NULL =>
    heap[objs[o].current] = Recalculate(objs[o], heap)

\* The right names a mask stands for, through the index map.
MaskNames(a) == IF a = NULL THEN NULL ELSE {names[i + 1] : i \in heap[a].bits}

Rights == INSTANCE AclRights WITH
  rights <- [o \in Objects |-> IF objs[o] = NULL THEN NULL
                               ELSE [s \in Slots |-> MaskNames(objs[o].masks[s])]],
  call <- call

\* The cache implements AclRights: read through the right name indexes, the
\* masks hold the set meaning of every update since the object was cached.
RightsRefinement == Rights!Spec

\* acl_cache_get_names(): the count of right_idx_name_map, the names a
\* caller can index with the bits of a mask.
RightNamesCount == Len(names)

\* Every bit of every mask lies inside the mask's bytes, so that the merge
\* and remove loops of acl_cache_update_rights_mask() and the copy of
\* recalculate never touch a byte past a mask, and names an index that
\* acl_cache_get_names() returns, so that a caller turning a mask into names
\* never reads past the names array.
MaskBitsNamed ==
  alive =>
    \A a \in DOMAIN heap :
      \A i \in heap[a].bits : i \div CharBit < heap[a].size /\ i < RightNamesCount

\* Once acl_cache_deinit() has run, no mask of the cache is left
\* allocated: deinit frees what the cache holds, as acl_cache_flush_all does.
NoMaskOutlivesCache ==
  ~alive => DOMAIN heap = {}

\* A call that may change the cached rights of o: an update of o that
\* applies to the user, a flush of o or of all objects.
ChangesRightsOf(o) ==
  \/ call' = <<o>>
  \/ call' = <<>>
  \/ \E r \in Inputs : call' = <<o, r>> /\ Applies(r)

\* The rights mask acl_cache_get_my_rights() returned, while it is still
\* the object's my_current_rights, stays allocated and unmodified until a
\* call that may change that object's rights: no call on another object
\* and no other call frees it or rewrites it in place (the caller reads it
\* without a copy).
HeldRightsStable ==
  [][\A o \in Objects :
       held[o] # NULL /\ objs[o] # NULL /\ held[o] = objs[o].current /\ ~ChangesRightsOf(o) =>
         held[o] \in DOMAIN heap' /\ heap'[held[o]] = heap[held[o]]]_vars

\* The current rights of an object are its positive rights less its
\* negative rights ("they override positive rights", line 320).
NegativeRightsOverride ==
  \A o \in Objects : objs[o] # NULL /\ objs[o].current # NULL =>
    MaskNames(objs[o].current) = Rights!EffectiveRights(o)

=============================================================================
