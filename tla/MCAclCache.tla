---------------------------- MODULE MCAclCache ----------------------------
(***************************************************************************)
(* One cached object, the ANYONE and USER id types, three right names with *)
(* two bits per byte (so masks of one and two bytes meet), every modify    *)
(* mode with rights lists that are NULL, empty, or hold one or two names.  *)
(***************************************************************************)
EXTENDS AclCache

CONSTANTS m1, m2, m3, m4, m5, m6, o1, o2

MCMaskIds == {m1, m2, m3, m4, m5, m6}
MCIdTypes == {"ANYONE", "USER"}
Modes == {"ADD", "REMOVE", "REPLACE"}
\* Updates of the positive rights only, of the negative rights only, and
\* one update for another user, which does not apply.
PosInputs ==
  [id_type : MCIdTypes, identifier : {"me"}, modify_mode : Modes,
   rights : {<<>>, <<"a">>, <<"c", "b">>}, neg_modify_mode : {"ADD"}, neg_rights : {NULL}]
NegInputs ==
  [id_type : MCIdTypes, identifier : {"me"}, modify_mode : {"ADD"},
   rights : {NULL}, neg_modify_mode : Modes, neg_rights : {NULL, <<"b">>}]
MCInputs ==
  PosInputs \cup NegInputs \cup
  {[id_type |-> "USER", identifier |-> "other", modify_mode |-> "REPLACE",
    rights |-> <<"a">>, neg_modify_mode |-> "ADD", neg_rights |-> NULL]}
\* The history variable call is read by no action: states that differ only
\* in it have the same successors, so it is left out of the fingerprint.
View == <<names, nameIdx, objs, heap, alive>>

\* For the caller's copy of the returned rights pointer, held is kept in the
\* fingerprint; the updates are those of the ANYONE id type, and the one
\* update for another user.
HeldView == <<names, nameIdx, objs, heap, alive, held>>
MCHeldInputs == {r \in MCInputs : r.id_type = "ANYONE" \/ r.identifier = "other"}

\* Two objects: ADD and REMOVE of one name and REPLACE by two names (a
\* mask of two bytes) on the positive ANYONE rights, and the update for
\* another user.  Each object holds at most its mask and its current
\* rights, and an update allocates its change mask before it frees the old
\* one: five masks at most.
MCHeldInputs2 ==
  {r \in MCHeldInputs :
     \/ r.identifier = "other"
     \/ /\ r.neg_rights = NULL /\ r.rights # NULL
        /\ <<r.modify_mode, r.rights>> \in
             {<<"ADD", <<"a">>>>, <<"REMOVE", <<"a">>>>, <<"REPLACE", <<"c", "b">>>>}}
Symmetry == Permutations(MCMaskIds)
=============================================================================
