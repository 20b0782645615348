---------------------------- MODULE SessionLease ----------------------------
(***************************************************************************)
(* One Codex execution session: its row in session_ledger and its lease in *)
(* session_leases, with the operations of session_manager.py and of the    *)
(* ledger on them, one action per statement or transaction.                *)
(*                                                                         *)
(* Abstractions: every statement names one session, so one is enough.      *)
(* A lease is identified by the process that took it, although processes   *)
(* share a worker id: the lease id also has the second it was taken in.    *)
(* expired is `expires_at < now', for a time to live of seconds.           *)
(* inactive is any state but active, and the host is kept for an active    *)
(* session only: nobody reads it of another one.                           *)
(* Left out are lease_count, which nothing reads; the verification level,  *)
(* which an inspection that makes the session active raises to what a      *)
(* lease asks for; and the time of the last validation, so that a record   *)
(* may be found outdated at any time.                                      *)
(***************************************************************************)
EXTENDS Naturals

CONSTANTS
  Hosts,       \* runner hosts
  Holders,     \* who asks for a lease
  Nobody,      \* no lease, no host
  MaxExpiries  \* bound: how often a lease expires

ASSUME SessionAssumption == /\ Nobody \notin Hosts \cup Holders
                            /\ MaxExpiries \in Nat

VARIABLES
  session,  \* the row in session_ledger
  lease,    \* the row in session_leases
  expiries  \* how many leases have expired

sessionVars == <<session, lease, expiries>>

SessionStates == {"absent", "active", "inactive"}

SessionTypeOK ==
  /\ session \in [state : SessionStates, host : Hosts \cup {Nobody}]
  /\ lease \in [by : Holders \cup {Nobody}, expired : BOOLEAN]
  /\ expiries \in 0..MaxExpiries

Inactive == [state |-> "inactive", host |-> Nobody]

NoLease == [by |-> Nobody, expired |-> FALSE]

SessionInit ==
  /\ session = [state |-> "absent", host |-> Nobody]
  /\ lease = NoLease
  /\ expiries = 0

-----------------------------------------------------------------------------
(* The session's record. *)

\* record_session_inspection of an inspection that satisfied all checks.
RecordInspection(host) ==
  /\ session' = [state |-> "active", host |-> host]
  /\ UNCHANGED <<lease, expiries>>

\* record_continuity_fallback: state renewal_session.
RecordFallback ==
  /\ session' = Inactive
  /\ UNCHANGED <<lease, expiries>>

\* transition_session_state(REAUTH_REQUIRED), whatever the state is.
RequireReauth ==
  /\ session.state # "absent"
  /\ session' = Inactive
  /\ UNCHANGED <<lease, expiries>>

\* _validate_leaseable_record, but for the age of the validation.
Leaseable(host) == session.state = "active" /\ session.host = host

-----------------------------------------------------------------------------
(* The lease. *)

Held == lease.by # Nobody /\ ~lease.expired

\* acquire_session_lease: an expired lease is deleted first.
TakeLease(h) ==
  /\ ~Held
  /\ lease' = [by |-> h, expired |-> FALSE]
  /\ UNCHANGED <<session, expiries>>

\* Mutant: the session's lease is released, whoever took it.
ReleaseAnyLease(h) ==
  /\ lease' = NoLease
  /\ UNCHANGED <<session, expiries>>

\* release_session_lease with the id of the lease that h took.
ReleaseLease(h) ==
  /\ lease' = IF lease.by = h THEN NoLease ELSE lease
  /\ UNCHANGED <<session, expiries>>

LeaseExpires ==
  /\ Held
  /\ expiries < MaxExpiries
  /\ expiries' = expiries + 1
  /\ lease' = [lease EXCEPT !.expired = TRUE]
  /\ UNCHANGED session

=============================================================================
