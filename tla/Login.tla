-------------------------------- MODULE Login --------------------------------
(***************************************************************************)
(* The admin's password (src/src/server/auth.rs) and how it is set, by     *)
(* set_password or by the seed_admin program beside the console            *)
(* (src/src/bin/seed_admin.rs): a look for a row and then a write, in two  *)
(* statements, so that two settings may overlap.                           *)
(***************************************************************************)
EXTENDS Naturals

CONSTANTS
  Setters,    \* processes that set the password
  Passwords,
  NoPassword, \* no value
  MaxSets     \* bound on how often the password is set

ASSUME LoginAssumption == MaxSets \in Nat

VARIABLES
  credentials,  \* admin_credentials: a password per row, a row per inserter
  setter,       \* what each setter does
  decided,      \* the last password set, if its setting met no other
  sets          \* settings begun

loginVars == <<credentials, setter, decided, sets>>

Rows == DOMAIN credentials

Resting == [busy |-> FALSE, password |-> NoPassword, found |-> FALSE, alone |-> FALSE]

Busy == {c \in Setters : setter[c].busy}

LoginInit ==
  /\ credentials = [r \in {} |-> NoPassword]
  /\ setter = [c \in Setters |-> Resting]
  /\ decided = NoPassword
  /\ sets = 0

\* The password is hashed, and a row is looked for.
LookForRow(c) ==
  /\ c \notin Busy
  /\ sets < MaxSets
  /\ sets' = sets + 1
  /\ \E p \in Passwords :
       setter' = [d \in Setters |->
         IF d = c THEN [busy |-> TRUE, password |-> p, found |-> Rows # {},
                        alone |-> Busy = {}]
         ELSE [setter[d] EXCEPT !.alone = FALSE]]
  /\ UNCHANGED <<credentials, decided>>

\* Slip: only the row that was found gets the new password.
UpdatedFirst(p) ==
  [credentials EXCEPT ![CHOOSE r \in Rows : TRUE] = p]

\* The update has no filter: every row gets the new password.
Updated(p) == [r \in Rows |-> p]

WithRowOf(c, p) == [r \in Rows \cup {c} |-> IF r = c THEN p ELSE credentials[r]]

StorePassword(c) ==
  /\ c \in Busy
  /\ LET p == setter[c].password
     IN  /\ credentials' = IF setter[c].found THEN Updated(p) ELSE WithRowOf(c, p)
         /\ decided' = IF setter[c].alone THEN p ELSE NoPassword
  /\ setter' = [setter EXCEPT ![c] = Resting]
  /\ UNCHANGED sets

SettingFails(c) ==
  /\ c \in Busy
  /\ setter' = [setter EXCEPT ![c] = Resting]
  /\ UNCHANGED <<credentials, decided, sets>>

LoginNext ==
  \E c \in Setters : LookForRow(c) \/ StorePassword(c) \/ SettingFails(c)

LoginSpec == LoginInit /\ [][LoginNext]_loginVars

\* What login may answer to a password: it is compared with any one row.
verify_password(p) ==
  IF Rows = {} THEN {FALSE} ELSE {credentials[r] = p : r \in Rows}

-----------------------------------------------------------------------------
(* Properties                                                              *)

LoginTypeOK ==
  /\ Rows \subseteq Setters
  /\ \A r \in Rows : credentials[r] \in Passwords
  /\ setter \in [Setters -> [busy : BOOLEAN, password : Passwords \cup {NoPassword},
                             found : BOOLEAN, alone : BOOLEAN]]
  /\ \A c \in Busy : setter[c].password \in Passwords
  /\ decided \in Passwords \cup {NoPassword}
  /\ sets \in 0 .. MaxSets

\* After a setting that met no other, login accepts its password and no other,
\* whichever row it reads: also when two first settings had met before and left
\* a row each (auth.rs:67-91).
RotationDecides ==
  decided # NoPassword =>
    \A p \in Passwords : verify_password(p) = {p = decided}
=============================================================================
