----------------------------- MODULE MCAccounts -----------------------------
(* Two administrators, three requests at once: accounts created under two    *)
(* spellings of one address, addresses and roles changed, an account         *)
(* disabled, a role saved without entries and with none sent, and all rights *)
(* of another withdrawn.                                                     *)
EXTENDS Accounts
CONSTANTS ann, bob, annLower, annUpper, bobLower
MCLower == [e \in Email |-> IF e = annUpper THEN annLower ELSE e]
MCGiven == [a \in Admin |-> IF a = ann THEN annLower ELSE bobLower]
Op(kind, user, sent, role, perms) ==
    [kind |-> kind, user |-> user, sent |-> sent, role |-> role, perms |-> perms]
MCAsked == {
    Op("create_user", ann, [email |-> annUpper, role |-> "viewer", status |-> "Active"],
       "admin", Null),
    Op("update_user", bob, [email |-> annUpper], "admin", Null),
    Op("update_user", ann, [email |-> annUpper], "admin", Null),
    Op("update_user", bob, [status |-> "Inactive"], "admin", Null),
    Op("upsert_role", ann, [status |-> "Active"], "auditors", {}),
    Op("upsert_role", ann, [status |-> "Active"], "auditors", Null),
    Op("update_role_permissions", ann, [status |-> "Active"], "admin", AllFalse)}
=============================================================================
