----------------------------- MODULE AclRights -----------------------------
(***************************************************************************)
(* What src/plugins/acl/acl-cache.c promises, without bitmasks: for every  *)
(* cached object and every slot (positive or negative rights of one ACL    *)
(* identifier type), the set of right names it holds, or NULL when the     *)
(* slot was never set.  An update applies to the slots of its id type when *)
(* the backend's user matches that type, with the set meaning of the       *)
(* ADD, REMOVE and REPLACE modify modes.                                   *)
(***************************************************************************)
EXTENDS Sequences, SequencesExt

CONSTANTS
  Objects,            \* ACL object (mailbox) names
  IdTypes,            \* the enum acl_id_type values in the model
  UserAuthenticated,  \* acl_backend_user_is_authenticated()
  UserGroups,         \* identifiers for which acl_backend_user_is_in_group()
  UserName,           \* the identifier acl_backend_user_name_equals()
  Inputs,             \* the struct acl_rights values updates are made with
  NULL

VARIABLES
  rights,  \* [Objects -> NULL or [Slots -> SUBSET names or NULL]]
  call     \* the last call made: <<o, r>> update, <<o>> flush, <<>> flush all

Slots == {"pos", "neg"} \X IdTypes

\* The switch of acl_cache_update() on rights->id_type.
Applies(r) ==
  CASE r.id_type = "ANYONE" -> TRUE
    [] r.id_type = "AUTHENTICATED" -> UserAuthenticated
    [] r.id_type \in {"GROUP", "GROUP_OVERRIDE"} -> r.identifier \in UserGroups
    [] r.id_type = "USER" -> r.identifier = UserName

\* The set a slot holds after a change in the given mode; change is NULL
\* when the update carries no list for the slot.
Modify(old, mode, change) ==
  CASE mode = "ADD" -> IF old = NULL THEN change
                       ELSE IF change = NULL THEN old ELSE old \cup change
    [] mode = "REMOVE" -> IF old = NULL \/ change = NULL THEN old ELSE old \ change
    [] mode = "REPLACE" -> change

AsSet(list) == IF list = NULL THEN NULL ELSE ToSet(list)

Init == rights = [o \in Objects |-> NULL] /\ call = <<>>

Update(o, r) ==
  LET obj == IF rights[o] = NULL THEN [s \in Slots |-> NULL] ELSE rights[o]
      t == r.id_type
  IN rights' = [rights EXCEPT ![o] =
                  IF ~Applies(r) THEN obj
                  ELSE [obj EXCEPT ![<<"pos", t>>] = Modify(@, r.modify_mode, AsSet(r.rights)),
                                   ![<<"neg", t>>] = Modify(@, r.neg_modify_mode, AsSet(r.neg_rights))]]
     /\ call' = <<o, r>>

Flush(o) == rights' = [rights EXCEPT ![o] = NULL] /\ call' = <<o>>

FlushAll == rights' = [o \in Objects |-> NULL] /\ call' = <<>>

Next ==
  \/ \E o \in Objects, r \in Inputs : Update(o, r)
  \/ \E o \in Objects : Flush(o)
  \/ FlushAll

Spec == Init /\ [][Next]_<<rights, call>>

\* The rights the user has on a cached object: the positive rights of all
\* id types, less the negative ones, which "override positive rights".
EffectiveRights(o) ==
  LET sets(kind) == {rights[o][<<kind, t>>] : t \in IdTypes} \ {NULL}
  IN UNION sets("pos") \ UNION sets("neg")

=============================================================================
