----------------------------- MODULE LdapMirror -----------------------------
(***************************************************************************)
(* What the jobs that copy LDAP into the files of a server promise, without *)
(* saying how: the copy is at all times something that LDAP contained as a *)
(* whole.  An update takes what LDAP contains at one moment and later puts *)
(* it in place of the copy, or it is abandoned and the copy stays.  Once   *)
(* LDAP rests, the copy becomes and stays equal to it.                     *)
(*                                                                         *)
(* umbrella-ldap2zone (ZonePublish) and umbrella-ldap2dhcp (DhcpPublish)   *)
(* are shown to implement it.                                              *)
(***************************************************************************)
VARIABLES
  source,   \* what LDAP contains
  taken,    \* {} or {what the update in progress has taken}
  copy      \* what the file contains

vars == <<source, taken, copy>>

Init == taken = {} /\ copy = source

Change == source' # source /\ UNCHANGED <<taken, copy>>

Take == taken = {} /\ taken' = {source} /\ UNCHANGED <<source, copy>>

Abandon == taken' = {} /\ UNCHANGED <<source, copy>>

Publish == (\E s \in taken : copy' = s) /\ taken' = {} /\ UNCHANGED source

Next == Change \/ Take \/ Abandon \/ Publish

Safety == Init /\ [][Next]_vars

\* Updates are made again and again, and not all of them are abandoned.
Spec == Safety /\ WF_vars(Take) /\ SF_vars(Publish)
=============================================================================
