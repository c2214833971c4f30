--------------------------- MODULE CertificateCache ---------------------------
(***************************************************************************)
(* MtlsGatewayVerifier (src/api/gateway/mtls_verifier.ts) and the          *)
(* revocation handler (src/api/routes/admin.ts). A gateway reads the       *)
(* status of a serial from Redis, or from the database and then writes it  *)
(* to Redis, each an await; a revocation commits in the database and sends *)
(* a NOTIFY, on which a gateway deletes the Redis key. What OCSP answers   *)
(* and whether a certificate is in its validity window are inputs.         *)
(***************************************************************************)
EXTENDS Naturals

CONSTANTS
    Gateways,   \* verifiers, with a call of verifyConnection at a time
    Admins,     \* calls of the revocation handler
    Serials,
    NoSerial

ASSUME CertAssumption == NoSerial \notin Serials

VARIABLES
    row,        \* row[s]: hardware_certificates, "none" without a row
    cached,     \* cached[s]: the key mtls:cert:<s>, "none" without it
    verify,     \* verify[g]: place and serial of the call
    revoking,   \* revoking[a]: the serial read as not revoked, to be updated
    notices     \* notices[g]: notifications sent to g and not handled yet

certVars == <<row, cached, verify, revoking, notices>>

Statuses == {"none", "valid", "revoked"}

NoCall == [at |-> "none", serial |-> NoSerial]

CertTypeOK ==
    /\ row \in [Serials -> Statuses]
    /\ cached \in [Serials -> Statuses]
    /\ verify \in [Gateways ->
          {NoCall} \cup [at : {"cache", "row", "storeValid", "storeRevoked", "ocsp", "body"},
                         serial : Serials]]
    /\ revoking \in [Admins -> Serials \cup {NoSerial}]
    /\ notices \in [Gateways -> SUBSET Serials]

CertInit ==
    /\ row = [s \in Serials |-> "none"]
    /\ cached = [s \in Serials |-> "none"]
    /\ verify = [g \in Gateways |-> NoCall]
    /\ revoking = [a \in Admins |-> NoSerial]
    /\ notices = [g \in Gateways |-> {}]

-----------------------------------------------------------------------------
Proceeds(g, place) == verify' = [verify EXCEPT ![g].at = place]
Returns(g) == verify' = [verify EXCEPT ![g] = NoCall]

\* The whitelist is written outside of src.
Enrol(s) ==
    /\ row[s] = "none"
    /\ row' = [row EXCEPT ![s] = "valid"]
    /\ UNCHANGED <<cached, verify, revoking, notices>>

\* verifyConnection of a certificate inside its validity window.
VerifyConnection(g, s) ==
    /\ verify[g] = NoCall
    /\ verify' = [verify EXCEPT ![g] = [at |-> "cache", serial |-> s]]
    /\ UNCHANGED <<row, cached, revoking, notices>>

\* Mutant: a hit writes the entry again, for another hour.
AfterHitRenewed == "storeValid"

AfterHit == "ocsp"

ReadCache(g) ==
    /\ verify[g].at = "cache"
    /\ CASE cached[verify[g].serial] = "revoked" -> Returns(g)
         [] cached[verify[g].serial] = "valid"   -> Proceeds(g, AfterHit)
         [] cached[verify[g].serial] = "none"    -> Proceeds(g, "row")
    /\ UNCHANGED <<row, cached, revoking, notices>>

ReadRow(g) ==
    /\ verify[g].at = "row"
    /\ CASE row[verify[g].serial] = "none"    -> Returns(g)
         [] row[verify[g].serial] = "revoked" -> Proceeds(g, "storeRevoked")
         [] row[verify[g].serial] = "valid"   -> Proceeds(g, "storeValid")
    /\ UNCHANGED <<row, cached, revoking, notices>>

StoreRevoked(g) ==
    /\ verify[g].at = "storeRevoked"
    /\ cached' = [cached EXCEPT ![verify[g].serial] = "revoked"]
    /\ Returns(g)
    /\ UNCHANGED <<row, revoking, notices>>

\* The status read two awaits ago is trusted and stored.
StoreValid(g) ==
    /\ verify[g].at = "storeValid"
    /\ cached' = [cached EXCEPT ![verify[g].serial] = "valid"]
    /\ Proceeds(g, "ocsp")
    /\ UNCHANGED <<row, revoking, notices>>

\* checkOCSP: within 200 ms the fetch has an answer or is aborted. There is no
\* responder, or the answer is a refusal, and the call returns; or its body is read.
CheckOCSP(g) ==
    /\ verify[g].at = "ocsp"
    /\ Returns(g) \/ Proceeds(g, "body")
    /\ UNCHANGED <<row, cached, revoking, notices>>

\* The timer is cleared before the body is awaited: when it comes, if it does, the
\* call returns, verified or not.
ReadBody(g) ==
    /\ verify[g].at = "body"
    /\ Returns(g)
    /\ UNCHANGED <<row, cached, revoking, notices>>

\* A query rejects: not verified.
VerifyFails(g) ==
    /\ verify[g].at \notin {"none", "ocsp", "body"}
    /\ Returns(g)
    /\ UNCHANGED <<row, cached, revoking, notices>>

\* PATCH .../revoke: the row is read first,
RevokeFind(a, s) ==
    /\ revoking[a] = NoSerial
    /\ row[s] = "valid"
    /\ revoking' = [revoking EXCEPT ![a] = s]
    /\ UNCHANGED <<row, cached, verify, notices>>

\* then the update and the NOTIFY commit together. The gateways that listen are
\* sent the notification; a gateway may have lost its connection.
RevokeCommit(a, listening) ==
    /\ revoking[a] # NoSerial
    /\ row' = [row EXCEPT ![revoking[a]] = "revoked"]
    /\ notices' = [g \in Gateways |-> IF g \in listening THEN notices[g] \cup {revoking[a]}
                                                         ELSE notices[g]]
    /\ revoking' = [revoking EXCEPT ![a] = NoSerial]
    /\ UNCHANGED <<cached, verify>>

RevokeFails(a) ==
    /\ revoking[a] # NoSerial
    /\ revoking' = [revoking EXCEPT ![a] = NoSerial]
    /\ UNCHANGED <<row, cached, verify, notices>>

\* The notification handler deletes the key, or its DEL fails and is logged.
Invalidate(g, s) ==
    /\ s \in notices[g]
    /\ notices' = [notices EXCEPT ![g] = @ \ {s}]
    /\ cached' \in {cached, [cached EXCEPT ![s] = "none"]}
    /\ UNCHANGED <<row, verify, revoking>>

\* A crash of the gateway.
GatewayDies(g) ==
    /\ Returns(g)
    /\ notices' = [notices EXCEPT ![g] = {}]
    /\ UNCHANGED <<row, cached, revoking>>

\* Mutant: SET without EX.
CacheNeverExpires(s) == FALSE

\* EX 3600
CacheExpires(s) ==
    /\ cached[s] # "none"
    /\ cached' = [cached EXCEPT ![s] = "none"]
    /\ UNCHANGED <<row, verify, revoking, notices>>

VerifyStep(g) ==
    \/ ReadCache(g) \/ ReadRow(g) \/ StoreRevoked(g) \/ StoreValid(g)
    \/ CheckOCSP(g) \/ VerifyFails(g)

CertNext ==
    \/ \E g \in Gateways :
          \/ \E s \in Serials : VerifyConnection(g, s) \/ Invalidate(g, s)
          \/ VerifyStep(g) \/ ReadBody(g) \/ GatewayDies(g)
    \/ \E a \in Admins :
          \/ \E s \in Serials : RevokeFind(a, s)
          \/ \E listening \in SUBSET Gateways : RevokeCommit(a, listening)
          \/ RevokeFails(a)
    \/ \E s \in Serials : Enrol(s) \/ CacheExpires(s)

\* Queries are answered or reject, and keys expire. Nobody has to call, no
\* notification has to arrive, and no responder has to send the body it announced.
CertFairness ==
    /\ \A g \in Gateways : WF_certVars(VerifyStep(g))
    /\ \A s \in Serials : WF_certVars(CacheExpires(s))

CertSpec == CertInit /\ [][CertNext]_certVars /\ CertFairness

-----------------------------------------------------------------------------
(* Properties. *)

\* The next call will not return verified, nor does one that found the serial
\* valid and is to store it or to ask the responder. Excepted is one that waits for
\* the body of the responder's answer, for which there is no bound.
Refused(s) ==
    /\ cached[s] # "valid"
    /\ \A g \in Gateways :
          verify[g].serial = s => verify[g].at \notin {"storeValid", "ocsp"}

\* mtls_verifier.ts, admin.ts: a revocation takes hold for good, whichever
\* notifications are lost and however a verification that read the row before
\* it races the invalidation: from some time on, nothing lets a revoked serial
\* in, a call apart that a responder keeps waiting (and no step takes a revocation
\* back).
RevocationTakesHold == \A s \in Serials : <>[](row[s] = "revoked" => Refused(s))
=============================================================================
