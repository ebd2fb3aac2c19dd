-------------------------------- MODULE Privacy --------------------------------
(***************************************************************************)
(* Profiles, addresses, consents and support messages of customers, the    *)
(* erasure of all of it and the retention sweep.                           *)
(*                                                                         *)
(* Of the data of a row the model keeps only which kinds there are.  A     *)
(* request that creates the customer and then fails leaves nothing.        *)
(***************************************************************************)
EXTENDS Sessions

CONSTANTS Checkers  \* subjects with the privacy:approve permission

VARIABLES personal,     \* the kinds of data each row has
          requestedBy,  \* of the pending erasure request of each row, or None
          approved      \* rows of which an erasure request has been approved

privacyVars == <<personal, requestedBy, approved>>

\* "case" is a support case without its bodies, "message" a body the customer wrote,
\* "reply" one of the staff, "order" an order that names the row.
Bodies   == {"message", "reply"}
Erasable == Bodies \cup {"profile", "address", "order"}
Kinds    == Erasable \cup {"consent", "case"}

PrivacyInit == /\ personal = [r \in Rows |-> {}]
               /\ requestedBy = [r \in Rows |-> None]
               /\ approved = {}

-------------------------------------------------------------------------------
(* The customer's requests *)

\* The handlers of this module begin alike; which of them it is shows when it writes.
BeginProfile(c) == /\ \E s \in Subjects : CustomerFor(c, "profile", s, None)
                   /\ UNCHANGED privacyVars

Mine(c) == personal[call[c].row]

Writes(c, data) == /\ At(c, "profile", "resolved")
                   /\ personal' = [personal EXCEPT ![call[c].row] = data]
                   /\ Commit(c)
                   /\ UNCHANGED <<requestedBy, approved>>

\* get_profile, customer_orders, addresses, list_cases and export_profile commit too.
ReadProfile(c)   == Writes(c, Mine(c))
UpdateProfile(c) == Writes(c, Mine(c) \cup {"profile"})
AddAddress(c)    == Writes(c, Mine(c) \cup {"address"})
AddConsent(c)    == Writes(c, Mine(c) \cup {"consent"})
CreateCase(c)    == Writes(c, Mine(c) \cup {"case", "message"})

DeleteAddress(c) == /\ Writes(c, Mine(c) \ {"address"})
                    /\ "address" \in Mine(c)
\* authorized_case for the customer whose case it is.
AddMessage(c)    == /\ Writes(c, Mine(c) \cup {"message"})
                    /\ "case" \in Mine(c)
\* The staff answers any case, with its own row or a new one behind the sign-in.
Reply(c, r) == /\ At(c, "profile", "resolved")
               /\ "case" \in personal[r]
               /\ personal' = [personal EXCEPT ![r] = @ \cup {"reply"}]
               /\ Commit(c)
               /\ UNCHANGED <<requestedBy, approved>>

\* get_case does not commit, nor do requests that name an address, a case or an order
\* of somebody else.
Refused(c) == At(c, "profile", "resolved") /\ Rollback(c) /\ UNCHANGED privacyVars

\* A pending request is answered again; without a commit a new row is not kept.
RequestErasure(c) ==
  /\ At(c, "profile", "resolved")
  /\ IF requestedBy[call[c].row] = None
     THEN /\ requestedBy' = [requestedBy EXCEPT ![call[c].row] = call[c].who]
          /\ Commit(c)
     ELSE Rollback(c) /\ UNCHANGED requestedBy
  /\ UNCHANGED <<personal, approved>>

-------------------------------------------------------------------------------
(* The staff and the worker *)

\* What the erasure leaves of a row: the row, under a subject nobody signs in with.
\* SlipSameSubject: the subject is kept.
Kept(data)         == data \ Erasable
SlipSameSubject(r) == subjectOf[r]
NewSubject(r)      == Erased

\* approve_erasure locks the request and the row: one step against those that
\* write the row or refer to it.  It does not take the lock of customer_for.
ApproveErasure(r, checker) ==
  /\ requestedBy[r] \notin {None, checker}
  /\ subjectOf' = [subjectOf EXCEPT ![r] = NewSubject(r)]
  /\ personal' = [personal EXCEPT ![r] = Kept(@)]
  /\ requestedBy' = [requestedBy EXCEPT ![r] = None]
  /\ approved' = approved \cup {r}
  /\ UNCHANGED <<held, call>>

\* prune_payloads: messages may be of any age.
PruneMessages(r) == /\ personal[r] \cap Bodies # {}
                    /\ personal' = [personal EXCEPT ![r] = @ \ Bodies]
                    /\ UNCHANGED <<sessionVars, requestedBy, approved>>

ProfileNext(c) == \/ BeginProfile(c) \/ ReadProfile(c) \/ UpdateProfile(c) \/ AddAddress(c)
                  \/ AddConsent(c) \/ CreateCase(c) \/ DeleteAddress(c) \/ AddMessage(c)
                  \/ (\E r \in Rows : Reply(c, r)) \/ Refused(c) \/ RequestErasure(c)
===============================================================================
