---------------------------- MODULE RefreshTokens ----------------------------
(***************************************************************************)
(* core/auth/refresh-token-rotation.service.ts: the tokens of one login    *)
(* (one family), rotated, replayed and logged out by concurrent calls. All *)
(* tokens of a family share one expiry (nextExpiry).                       *)
(***************************************************************************)
EXTENDS Integers

CONSTANTS
    MaxTokens,  \* bound on the tokens of the family; the login issued token 1
    Calls,      \* calls in progress at once
    Enabled     \* the disturbances that may happen, of {"dbFault"}

Tokens == 1 .. MaxTokens

VARIABLES
    row,       \* per token: "absent", "live" or "revoked" (the revoked column)
    store,     \* tokens with a key in the revocation store
    lapsed,    \* the family's expiresAt has passed
    call,      \* per call: where it is suspended, its token, the tokens it listed
    reported,  \* history: a call has returned { kind: "reused" }
    late,      \* history: tokens that a family revocation could not see, and their descendants
    unseen     \* history: calls whose replacement will be late

vars == <<row, store, lapsed, call, reported, late, unseen>>

Idle == [pc |-> "idle"]

Init ==
    /\ row = [t \in Tokens |-> IF t = 1 THEN "live" ELSE "absent"]
    /\ store = {}
    /\ lapsed = FALSE
    /\ call = [c \in Calls |-> Idle]
    /\ reported = FALSE
    /\ late = {}
    /\ unseen = {}

At(c, pc) == call[c].pc = pc
Goto(c, pc) == call' = [call EXCEPT ![c].pc = pc]
Return(c) == call' = [call EXCEPT ![c] = Idle]
Saved == {t \in Tokens : row[t] # "absent"}
Live == {t \in Tokens : row[t] = "live"}

\* Rotations that have read their token as live and not yet saved a replacement.
Rotating == {c \in Calls : call[c].pc \in {"checking", "saving"}}

-----------------------------------------------------------------------------
\* rotate: the lookup is not filtered on revoked; a lapsed token is refused.
Find(c, t) ==
    /\ At(c, "idle") /\ row[t] # "absent" /\ ~lapsed
    /\ call' = [call EXCEPT ![c] = [pc |-> IF row[t] = "revoked" THEN "listing" ELSE "checking",
                                    token |-> t, family |-> {}, known |-> {}]]
    /\ unseen' = IF t \in late THEN unseen \union {c} ELSE unseen \ {c}
    /\ UNCHANGED <<row, store, lapsed, reported, late>>

CheckStore(c) ==
    /\ At(c, "checking")
    /\ Goto(c, IF call[c].token \in store THEN "listing" ELSE "saving")
    /\ UNCHANGED <<row, store, lapsed, reported, late, unseen>>

SaveReplacement(c, n) ==
    /\ At(c, "saving") /\ Saved = 1 .. n - 1
    /\ row' = [row EXCEPT ![n] = "live"]
    /\ late' = IF c \in unseen THEN late \union {n} ELSE late
    /\ Goto(c, "retiring")
    /\ UNCHANGED <<store, lapsed, reported, unseen>>

Retire(c) ==
    /\ At(c, "retiring")
    /\ row' = [row EXCEPT ![call[c].token] = "revoked"]
    /\ Goto(c, "storing")
    /\ UNCHANGED <<store, lapsed, reported, late, unseen>>

StoreRetired(c) ==
    /\ At(c, "storing")
    /\ store' = store \union {call[c].token}
    /\ Return(c)
    /\ UNCHANGED <<row, lapsed, reported, late, unseen>>

-----------------------------------------------------------------------------
\* revokeFamily: find, save the list (one transaction), mark it in the store.
ListOne(c) ==  \* mutant: findOne in place of find
    /\ At(c, "listing")
    /\ \E t \in Live : call' = [call EXCEPT ![c].pc = "revoking", ![c].family = {t}, ![c].known = Saved]
    /\ UNCHANGED <<row, store, lapsed, reported, late, unseen>>

ListFamily(c) ==
    /\ At(c, "listing")
    /\ call' = [call EXCEPT ![c].pc = "revoking", ![c].family = Live, ![c].known = Saved]
    /\ UNCHANGED <<row, store, lapsed, reported, late, unseen>>

RevokeListed(c) ==
    /\ At(c, "revoking")
    /\ row' = [t \in Tokens |-> IF t \in call[c].family THEN "revoked" ELSE row[t]]
    /\ late' = late \union (Saved \ call[c].known)
    /\ unseen' = unseen \union Rotating
    /\ Goto(c, "reporting")
    /\ UNCHANGED <<store, lapsed, reported>>

ReportReuse(c) ==
    /\ At(c, "reporting")
    /\ store' = store \union call[c].family
    /\ reported' = TRUE
    /\ Return(c)
    /\ UNCHANGED <<row, lapsed, late, unseen>>

-----------------------------------------------------------------------------
\* revokeToken (logout) of a token the caller has loaded.
Logout(c, t) ==
    /\ At(c, "idle") /\ row[t] # "absent"
    /\ row' = [row EXCEPT ![t] = "revoked"]
    /\ call' = [call EXCEPT ![c] = [pc |-> "storing", token |-> t, family |-> {}, known |-> {}]]
    /\ UNCHANGED <<store, lapsed, reported, late, unseen>>

\* External: the expiry of the family, a database or store that throws, a crash.
Lapse ==
    /\ ~lapsed /\ lapsed' = TRUE
    /\ UNCHANGED <<row, store, call, reported, late, unseen>>

Fail(c) ==
    /\ "dbFault" \in Enabled /\ ~At(c, "idle")
    /\ Return(c)
    /\ UNCHANGED <<row, store, lapsed, reported, late, unseen>>

Next ==
    \/ Lapse
    \/ \E c \in Calls :
          \/ CheckStore(c) \/ Retire(c) \/ StoreRetired(c)
          \/ ListFamily(c) \/ RevokeListed(c) \/ ReportReuse(c) \/ Fail(c)
          \/ \E t \in Tokens : Find(c, t) \/ Logout(c, t)
          \/ \E n \in Tokens : SaveReplacement(c, n)

Spec == Init /\ [][Next]_vars

-----------------------------------------------------------------------------
\* "Every token descended from the same login dies" (reuse detection): once a
\* replay has been reported, a token of the family is live only if it comes
\* from a rotation that the revocation could not see: one that saved its
\* replacement after revokeFamily had listed the family, or had read its own
\* token before the revocation was written, or rotates such a token.
SurvivorsWereUnseen == reported => Live \subseteq late

-----------------------------------------------------------------------------
\* The inductive invariant.
Shape ==
    /\ row \in [Tokens -> {"absent", "live", "revoked"}]
    /\ call = [c \in Calls |-> call[c]]
    /\ \A c \in Calls : At(c, "idle") \/ {"pc", "token", "family", "known"} \subseteq DOMAIN call[c]

\* A call that has listed the family revokes all that was live then, and no token
\* comes back to life.
ListedIsComplete ==
    \A c \in Calls : At(c, "revoking") =>
        call[c].known \subseteq Saved /\ call[c].known \intersect Live \subseteq call[c].family

\* From the revocation on, until its caller has reported it or died.
Revoked == reported \/ \E c \in Calls : At(c, "reporting")

\* Since then what is live was not seen, and so will be what is saved from now on.
RestIsUnseen == Revoked => Live \subseteq late /\ Rotating \subseteq unseen

IInv == Shape /\ ListedIsComplete /\ RestIsUnseen
=============================================================================
