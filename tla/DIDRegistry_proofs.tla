------------------------- MODULE DIDRegistry_proofs -------------------------
(***************************************************************************)
(* Proofs about the registry contract, for any DIDs, accounts, hashes and  *)
(* number of updates.                                                      *)
(*                                                                         *)
(* RegistryInv is inductive once it is known that finitely many DIDs are   *)
(* registered, without which a counter says nothing.  The operations fall  *)
(* into four kinds: they register a DID, rewrite a document without        *)
(* changing its controller, write a credential of a known issuer, or leave *)
(* the records alone.  There is a lemma for each kind.                     *)
(***************************************************************************)
EXTENDS DIDRegistry, FiniteSetTheorems, TLAPS

Registered == {d \in Dids : documents[d] # {}}

IInv == RegistryInv /\ IsFiniteSet(Registered)

-----------------------------------------------------------------------------
(* Options and sequences.                                                  *)

\* An option that is not empty holds one element.
LEMMA OptionSome == ASSUME NEW S, NEW o \in Option(S), NEW s \in o PROVE s \in S /\ o = {s}
BY DEF Option

\* What a sequence lists after a DID is appended.
LEMMA IdsOfAppend ==
    ASSUME NEW S, NEW s \in Seq(S), NEW d \in S
    PROVE  IdsOf(Append(s, d)) = IdsOf(s) \cup {d}
<1>1. Len(Append(s, d)) = Len(s) + 1 /\ Len(s) \in Nat
  OBVIOUS
<1>2. \A i \in 1..Len(s) : Append(s, d)[i] = s[i]
  OBVIOUS
<1>3. Append(s, d)[Len(s) + 1] = d
  OBVIOUS
<1>4. IdsOf(Append(s, d)) \subseteq IdsOf(s) \cup {d}
  <2> SUFFICES ASSUME NEW i \in 1..(Len(s) + 1) PROVE Append(s, d)[i] \in IdsOf(s) \cup {d}
    BY <1>1 DEF IdsOf
  <2>1. CASE i = Len(s) + 1
    BY <1>3, <2>1
  <2>2. CASE i # Len(s) + 1
    BY <1>1, <1>2, <2>2 DEF IdsOf
  <2> QED BY <2>1, <2>2
<1>5. IdsOf(s) \cup {d} \subseteq IdsOf(Append(s, d))
  <2>1. ASSUME NEW i \in 1..Len(s) PROVE s[i] \in IdsOf(Append(s, d))
    <3>1. i \in 1..Len(Append(s, d))
      BY <1>1
    <3> QED BY <1>2, <3>1 DEF IdsOf
  <2>2. Len(s) + 1 \in 1..Len(Append(s, d))
    BY <1>1
  <2>3. d \in IdsOf(Append(s, d))
    BY <1>3, <2>2 DEF IdsOf
  <2> QED BY <2>1, <2>3 DEF IdsOf
<1> QED BY <1>4, <1>5

Distinct(s) == \A i, j \in 1..Len(s) : s[i] = s[j] => i = j

\* A DID that is not listed yet can be appended without a repetition.
LEMMA DistinctAppend ==
    ASSUME NEW S, NEW s \in Seq(S), NEW d \in S, Distinct(s), d \notin IdsOf(s)
    PROVE  Distinct(Append(s, d))
<1>1. Len(Append(s, d)) = Len(s) + 1 /\ Len(s) \in Nat
  OBVIOUS
<1>2. \A i \in 1..Len(s) : Append(s, d)[i] = s[i] /\ s[i] # d
  BY DEF IdsOf
<1>3. Append(s, d)[Len(s) + 1] = d
  OBVIOUS
<1> SUFFICES ASSUME NEW i \in 1..(Len(s) + 1), NEW j \in 1..(Len(s) + 1),
                    Append(s, d)[i] = Append(s, d)[j]
             PROVE  i = j
  BY <1>1 DEF Distinct
<1>4. CASE i \in 1..Len(s) /\ j \in 1..Len(s)
  BY <1>2, <1>4 DEF Distinct
<1>5. CASE i = Len(s) + 1 \/ j = Len(s) + 1
  BY <1>1, <1>2, <1>3, <1>5
<1> QED BY <1>1, <1>4, <1>5

\* The issuer on a record is a DID with a stored document.
LEMMA IssuerIsStored ==
    ASSUME IInv, NEW h \in Hashes, NEW rec \in credentials[h]
    PROVE  rec.issuer \in Dids /\ documents[rec.issuer] # {}
<1>1. credentials[h] \in Option(Credential)
  BY DEF IInv, RegistryInv, TypeOK
<1>2. rec \in Credential
  BY <1>1, OptionSome
<1> QED BY <1>2 DEF Credential, IInv, RegistryInv, IssuerOnRecord

-----------------------------------------------------------------------------
(* The four kinds of steps.                                                *)

\* Registering writes the document, the index entry and the counter together.
LEMMA RegisterKeeps ==
    ASSUME IInv, NEW d \in Dids, NEW c \in Accounts, DoRegister(d, c)
    PROVE  IInv'
<1> DEFINE new == [controller |-> c, deactivated |-> FALSE, version |-> 0]
<1>1. documents \in [Dids -> Option(Document)] /\ credentials \in [Hashes -> Option(Credential)]
      /\ controllerDIDs \in [Accounts -> Seq(Dids)] /\ didCount \in Nat
  BY DEF IInv, RegistryInv, TypeOK
<1>2. documents[d] = {} /\ documents' = [documents EXCEPT ![d] = {new}]
      /\ controllerDIDs' = [controllerDIDs EXCEPT ![c] = Append(@, d)]
      /\ didCount' = didCount + 1 /\ UNCHANGED <<owner, paused, credentials>>
  BY DEF DoRegister
<1>3. new \in Document
  BY VersionAssumption DEF Document
<1>4. documents'[d] = {new} /\ \A e \in Dids \ {d} : documents'[e] = documents[e]
  BY <1>1, <1>2
<1>5. TypeOK'
  <2>1. {new} \in Option(Document)
    BY <1>3 DEF Option
  <2>2. documents' \in [Dids -> Option(Document)]
    BY <1>1, <1>2, <2>1
  <2>3. controllerDIDs' \in [Accounts -> Seq(Dids)]
    BY <1>1, <1>2
  <2> QED BY <1>1, <1>2, <2>2, <2>3 DEF IInv, RegistryInv, TypeOK
<1>6. Registered' = Registered \cup {d} /\ d \notin Registered
  BY <1>2, <1>4 DEF Registered
<1>7. IsFiniteSet(Registered')
  BY <1>6, FS_AddElement DEF IInv
<1>8. IndexAgrees'
  <2>1. ASSUME NEW a \in Accounts
        PROVE  /\ IdsOf(controllerDIDs'[a]) = {e \in Dids : \E doc \in documents'[e] : doc.controller = a}
               /\ Distinct(controllerDIDs'[a])
    <3>1. IdsOf(controllerDIDs[a]) = {e \in Dids : \E doc \in documents[e] : doc.controller = a}
          /\ Distinct(controllerDIDs[a]) /\ controllerDIDs[a] \in Seq(Dids)
      BY <1>1 DEF IInv, RegistryInv, IndexAgrees, Distinct
    <3>2. d \notin IdsOf(controllerDIDs[a])
      BY <1>2, <3>1
    <3>3. CASE a = c
      <4>1. controllerDIDs'[a] = Append(controllerDIDs[a], d)
        BY <1>1, <1>2, <3>3
      <4>2. {e \in Dids : \E doc \in documents'[e] : doc.controller = a}
            = {e \in Dids : \E doc \in documents[e] : doc.controller = a} \cup {d}
        <5>1. \A doc \in documents'[d] : doc.controller = a
          BY <1>4, <3>3
        <5>2. \E doc \in documents'[d] : doc.controller = a
          BY <1>4, <5>1
        <5> QED BY <1>4, <5>2
      <4> QED BY <3>1, <3>2, <4>1, <4>2, IdsOfAppend, DistinctAppend
    <3>4. CASE a # c
      <4>1. controllerDIDs'[a] = controllerDIDs[a]
        BY <1>1, <1>2, <3>4
      <4>2. {e \in Dids : \E doc \in documents'[e] : doc.controller = a}
            = {e \in Dids : \E doc \in documents[e] : doc.controller = a}
        BY <1>2, <1>4, <3>4
      <4> QED BY <3>1, <4>1, <4>2
    <3> QED BY <3>3, <3>4
  <2>2. didCount' = Cardinality(Registered')
    BY <1>2, <1>6, FS_AddElement DEF IInv, RegistryInv, IndexAgrees, Registered
  <2> QED BY <2>1, <2>2 DEF IndexAgrees, Distinct, Registered
<1>9. IssuerOnRecord'
  <2> SUFFICES ASSUME NEW h \in Hashes, NEW rec \in credentials[h]
               PROVE  documents'[rec.issuer] # {}
    BY <1>2 DEF IssuerOnRecord
  <2>1. rec.issuer \in Dids /\ documents[rec.issuer] # {}
    BY IssuerIsStored
  <2>2. {new} # {}
    OBVIOUS
  <2> QED BY <1>4, <2>1, <2>2
<1> QED BY <1>5, <1>7, <1>8, <1>9 DEF IInv, RegistryInv

\* Rewriting a document under the same controller disturbs no other record.
LEMMA DocumentKeeps ==
    ASSUME IInv, NEW d \in Dids, NEW doc \in documents[d],
           NEW b \in Document, b.controller = doc.controller,
           documents' = [documents EXCEPT ![d] = {b}],
           UNCHANGED <<owner, paused, credentials, controllerDIDs, didCount>>
    PROVE  IInv'
<1>1. documents \in [Dids -> Option(Document)]
  BY DEF IInv, RegistryInv, TypeOK
<1>2. documents[d] = {doc}
  BY <1>1, OptionSome
<1>3. documents'[d] = {b} /\ \A e \in Dids \ {d} : documents'[e] = documents[e]
  BY <1>1
<1>4. TypeOK'
  <2>1. documents' \in [Dids -> Option(Document)]
    BY <1>1 DEF Option
  <2> QED BY <2>1 DEF IInv, RegistryInv, TypeOK
<1>5. Registered' = Registered
  BY <1>2, <1>3 DEF Registered
<1>6. \A a \in Accounts :
          {e \in Dids : \E x \in documents'[e] : x.controller = a}
          = {e \in Dids : \E x \in documents[e] : x.controller = a}
  BY <1>2, <1>3
<1>7. IndexAgrees'
  BY <1>5, <1>6 DEF IInv, RegistryInv, IndexAgrees, Registered
<1>8. IssuerOnRecord'
  <2> SUFFICES ASSUME NEW h \in Hashes, NEW rec \in credentials[h]
               PROVE  documents'[rec.issuer] # {}
    BY DEF IssuerOnRecord
  <2>1. rec.issuer \in Dids /\ documents[rec.issuer] # {}
    BY IssuerIsStored
  <2> QED BY <1>3, <2>1
<1> QED BY <1>4, <1>5, <1>7, <1>8 DEF IInv, RegistryInv

\* Writing a credential whose issuer is stored disturbs no document.
LEMMA CredentialKeeps ==
    ASSUME IInv, NEW h \in Hashes, NEW rec \in Credential, documents[rec.issuer] # {},
           credentials' = [credentials EXCEPT ![h] = {rec}],
           UNCHANGED <<owner, paused, documents, controllerDIDs, didCount>>
    PROVE  IInv'
<1>1. credentials \in [Hashes -> Option(Credential)]
  BY DEF IInv, RegistryInv, TypeOK
<1>2. credentials'[h] = {rec} /\ \A g \in Hashes \ {h} : credentials'[g] = credentials[g]
  BY <1>1
<1>3. TypeOK'
  <2>1. credentials' \in [Hashes -> Option(Credential)]
    BY <1>1 DEF Option
  <2> QED BY <2>1 DEF IInv, RegistryInv, TypeOK
<1>4. IndexAgrees' /\ Registered' = Registered
  BY DEF IInv, RegistryInv, IndexAgrees, Registered
<1>5. IssuerOnRecord'
  BY <1>2 DEF IInv, RegistryInv, IssuerOnRecord
<1> QED BY <1>3, <1>4, <1>5 DEF IInv, RegistryInv

\* Administration and stuttering leave the records as they are.
LEMMA RecordsUntouched ==
    ASSUME IInv, owner' \in Accounts, paused' \in BOOLEAN,
           UNCHANGED <<documents, credentials, controllerDIDs, didCount>>
    PROVE  IInv'
BY DEF IInv, RegistryInv, TypeOK, IndexAgrees, IssuerOnRecord, Registered

-----------------------------------------------------------------------------
(* The invariant.                                                          *)

\* In the beginning nothing is registered.
LEMMA InitHolds == ASSUME Init PROVE IInv
<1>1. TypeOK
  <2>1. {} \in Option(Document) /\ {} \in Option(Credential)
    BY DEF Option
  <2>2. documents \in [Dids -> Option(Document)]
    BY <2>1 DEF Init
  <2>3. credentials \in [Hashes -> Option(Credential)]
    BY <2>1 DEF Init
  <2>4. <<>> \in Seq(Dids)
    OBVIOUS
  <2>5. controllerDIDs \in [Accounts -> Seq(Dids)]
    BY <2>4 DEF Init
  <2> QED BY <2>2, <2>3, <2>5 DEF Init, TypeOK
<1>2. Registered = {}
  BY DEF Init, Registered
<1>3. IsFiniteSet(Registered) /\ Cardinality(Registered) = 0
  BY <1>2, FS_EmptySet
<1>4. \A a \in Accounts : controllerDIDs[a] = <<>> /\ Len(controllerDIDs[a]) = 0
  BY DEF Init
<1>5. IndexAgrees
  <2>1. \A a \in Accounts : IdsOf(controllerDIDs[a]) = {}
    BY <1>4 DEF IdsOf
  <2>2. \A a \in Accounts : {d \in Dids : \E doc \in documents[d] : doc.controller = a} = {}
    BY DEF Init
  <2> QED BY <1>3, <1>4, <2>1, <2>2 DEF Init, IndexAgrees, Registered
<1>6. IssuerOnRecord
  BY DEF Init, IssuerOnRecord
<1> QED BY <1>1, <1>3, <1>5, <1>6 DEF IInv, RegistryInv

\* The document a DID holds is well formed.
LEMMA DocumentTyped ==
    ASSUME IInv, NEW d \in Dids, NEW doc \in documents[d]
    PROVE  doc \in Document /\ documents[d] = {doc}
BY OptionSome DEF IInv, RegistryInv, TypeOK

\* An update rewrites one active document, which stays active and under its
\* controller.
LEMMA UpdateRewrites ==
    ASSUME IInv, NEW d \in Dids, UpdateDid(d)
    PROVE  \E doc \in documents[d] : \E b \in Document :
              /\ ~doc.deactivated /\ ~b.deactivated
              /\ b.controller = doc.controller
              /\ documents' = [documents EXCEPT ![d] = {b}]
<1>1. PICK doc \in documents[d] :
         /\ ~doc.deactivated
         /\ doc.version < MaxVersion
         /\ documents' = [documents EXCEPT ![d] = {[doc EXCEPT !.version = @ + 1]}]
  BY DEF UpdateDid
<1>2. doc \in Document
  BY DocumentTyped
<1> DEFINE b == [doc EXCEPT !.version = @ + 1]
<1>3. doc.version + 1 \in 0..MaxVersion
  BY <1>1, <1>2, VersionAssumption DEF Document
<1>4. b \in Document /\ b.deactivated = doc.deactivated /\ b.controller = doc.controller
  BY <1>2, <1>3 DEF Document
<1> QED BY <1>1, <1>4

\* A deactivation sets the tombstone of one active document.
LEMMA DeactivateRewrites ==
    ASSUME IInv, NEW d \in Dids, DeactivateDid(d)
    PROVE  \E doc \in documents[d] : \E b \in Document :
              /\ ~doc.deactivated /\ b.deactivated
              /\ b.controller = doc.controller
              /\ documents' = [documents EXCEPT ![d] = {b}]
<1>1. PICK doc \in documents[d] :
         /\ ~doc.deactivated
         /\ documents' = [documents EXCEPT ![d] = {[doc EXCEPT !.deactivated = TRUE]}]
  BY DEF DeactivateDid
<1>2. doc \in Document
  BY DocumentTyped
<1> DEFINE b == [doc EXCEPT !.deactivated = TRUE]
<1>3. b \in Document /\ b.deactivated /\ b.controller = doc.controller
  BY <1>2 DEF Document
<1> QED BY <1>1, <1>3

\* Every step keeps the invariant: one case per entry point.
LEMMA NextKeeps == ASSUME IInv, [Next]_registryVars PROVE IInv'
<1>1. ASSUME NEW a \in Accounts, TransferOwnership(a) PROVE IInv'
  BY <1>1, RecordsUntouched DEF TransferOwnership, IInv, RegistryInv, TypeOK
<1>2. CASE Pause
  BY <1>2, RecordsUntouched DEF Pause, IInv, RegistryInv, TypeOK
<1>3. CASE Unpause
  BY <1>3, RecordsUntouched DEF Unpause, IInv, RegistryInv, TypeOK
<1>4. ASSUME NEW d \in Dids, NEW a \in Accounts, RegisterDid(d, a) PROVE IInv'
  BY <1>4, RegisterKeeps DEF RegisterDid
<1>5. ASSUME NEW d \in SorobanDids, RegisterSorobanDid(d) PROVE IInv'
  <2>1. d \in Dids /\ AccountOf[d] \in Accounts
    BY SorobanAssumption
  <2> QED BY <1>5, <2>1, RegisterKeeps DEF RegisterSorobanDid
<1>6. ASSUME NEW d \in Dids, UpdateDid(d) PROVE IInv'
  <2>1. PICK doc \in documents[d], b \in Document :
           b.controller = doc.controller /\ documents' = [documents EXCEPT ![d] = {b}]
    BY <1>6, UpdateRewrites
  <2>2. UNCHANGED <<owner, paused, credentials, controllerDIDs, didCount>>
    BY <1>6 DEF UpdateDid
  <2> QED BY <2>1, <2>2, DocumentKeeps
<1>7. ASSUME NEW d \in Dids, DeactivateDid(d) PROVE IInv'
  <2>1. PICK doc \in documents[d], b \in Document :
           b.controller = doc.controller /\ documents' = [documents EXCEPT ![d] = {b}]
    BY <1>7, DeactivateRewrites
  <2>2. UNCHANGED <<owner, paused, credentials, controllerDIDs, didCount>>
    BY <1>7 DEF DeactivateDid
  <2> QED BY <2>1, <2>2, DocumentKeeps
<1>8. ASSUME NEW h \in Hashes, NEW d \in Dids, AnchorCredential(h, d) PROVE IInv'
  <2> DEFINE rec == [issuer |-> d, status |-> "Valid"]
  <2>1. rec \in Credential /\ rec.issuer = d
    BY DEF Credential
  <2>2. documents[d] # {}
    BY <1>8 DEF AnchorCredential
  <2>3. credentials' = [credentials EXCEPT ![h] = {rec}]
        /\ UNCHANGED <<owner, paused, documents, controllerDIDs, didCount>>
    BY <1>8 DEF AnchorCredential
  <2> HIDE DEF rec
  <2> QED BY <2>1, <2>2, <2>3, CredentialKeeps
<1>9. ASSUME NEW h \in Hashes, RevokeCredential(h) PROVE IInv'
  <2>1. PICK rec \in credentials[h] :
           credentials' = [credentials EXCEPT ![h] = {[rec EXCEPT !.status = "Revoked"]}]
    BY <1>9 DEF RevokeCredential
  <2>2. rec \in Credential
    BY OptionSome DEF IInv, RegistryInv, TypeOK
  <2> DEFINE new == [rec EXCEPT !.status = "Revoked"]
  <2>3. new \in Credential /\ new.issuer = rec.issuer
    BY <2>2 DEF Credential
  <2>4. documents[new.issuer] # {}
    BY <2>3, IssuerIsStored
  <2>5. UNCHANGED <<owner, paused, documents, controllerDIDs, didCount>>
    BY <1>9 DEF RevokeCredential
  <2> HIDE DEF new
  <2> QED BY <2>1, <2>3, <2>4, <2>5, CredentialKeeps DEF new
<1>10. CASE UNCHANGED registryVars
  BY <1>10, RecordsUntouched DEF registryVars, IInv, RegistryInv, TypeOK
<1> QED BY <1>1, <1>2, <1>3, <1>4, <1>5, <1>6, <1>7, <1>8, <1>9, <1>10 DEF Next

\* The invariant with its strengthening holds of every behaviour.
LEMMA Invariance == Spec => []IInv
<1>1. Init => IInv
  BY InitHolds
<1>2. IInv /\ [Next]_registryVars => IInv'
  BY NextKeeps
<1> QED BY <1>1, <1>2, PTL DEF Spec

\* Documents, index, counter and issuers agree at all times, whatever the
\* number of DIDs, accounts and hashes and the order of the calls
\* (do_register, the updates and the anchoring of lib.rs).
THEOREM RecordsAlwaysAgree == Spec => []RegistryInv
<1>1. IInv => RegistryInv
  BY DEF IInv
<1> QED BY <1>1, Invariance, PTL

\* A revoked record is never written again.
LEMMA RevokedStays ==
    ASSUME IInv, [Next]_registryVars, NEW h \in Hashes,
           NEW rec \in credentials[h], rec.status = "Revoked"
    PROVE  credentials'[h] = credentials[h]
<1>1. credentials \in [Hashes -> Option(Credential)] /\ credentials[h] = {rec}
  BY OptionSome DEF IInv, RegistryInv, TypeOK
<1>2. ASSUME NEW g \in Hashes, NEW d \in Dids, AnchorCredential(g, d)
      PROVE  credentials'[h] = credentials[h]
  <2>1. g # h
    BY <1>1, <1>2 DEF AnchorCredential
  <2> QED BY <1>1, <1>2, <2>1 DEF AnchorCredential
<1>3. ASSUME NEW g \in Hashes, RevokeCredential(g)
      PROVE  credentials'[h] = credentials[h]
  <2>1. g # h
    BY <1>1, <1>3 DEF RevokeCredential
  <2> QED BY <1>1, <1>3, <2>1 DEF RevokeCredential
<1>4. CASE UNCHANGED credentials
  BY <1>4
<1> QED BY <1>2, <1>3, <1>4
        DEF Next, TransferOwnership, Pause, Unpause, RegisterDid, RegisterSorobanDid,
            DoRegister, UpdateDid, DeactivateDid, registryVars

-----------------------------------------------------------------------------
(* Control.                                                                *)

\* One step leaves every document under its controller.
LEMMA StepKeepsControllers ==
    ASSUME IInv, Next, NEW e \in Dids, NEW old \in documents[e]
    PROVE  \E new \in documents'[e] : new.controller = old.controller
<1>1. documents[e] = {old} /\ documents \in [Dids -> Option(Document)]
  BY DocumentTyped DEF IInv, RegistryInv, TypeOK
<1>2. ASSUME NEW d \in Dids, NEW a \in Accounts, DoRegister(d, a)
      PROVE  documents'[e] = documents[e]
  <2>1. d # e
    BY <1>1, <1>2 DEF DoRegister
  <2> QED BY <1>1, <1>2, <2>1 DEF DoRegister
<1>3. ASSUME NEW d \in SorobanDids, RegisterSorobanDid(d)
      PROVE  documents'[e] = documents[e]
  <2>1. d \in Dids /\ AccountOf[d] \in Accounts
    BY SorobanAssumption
  <2> QED BY <1>2, <1>3, <2>1 DEF RegisterSorobanDid
<1>4. ASSUME NEW d \in Dids, UpdateDid(d) \/ DeactivateDid(d)
      PROVE  \E new \in documents'[e] : new.controller = old.controller
  <2>1. PICK doc \in documents[d], b \in Document :
           b.controller = doc.controller /\ documents' = [documents EXCEPT ![d] = {b}]
    BY <1>4, UpdateRewrites, DeactivateRewrites
  <2>2. CASE d = e
    BY <1>1, <2>1, <2>2
  <2>3. CASE d # e
    BY <1>1, <2>1, <2>3
  <2> QED BY <2>2, <2>3
<1>5. CASE UNCHANGED documents
  BY <1>5
<1> QED BY <1>1, <1>2, <1>3, <1>4, <1>5
        DEF Next, TransferOwnership, Pause, Unpause, RegisterDid, AnchorCredential, RevokeCredential

\* No sequence of calls gives a registered DID another controller
\* (update_did and deactivate_did rewrite the document they read).
THEOREM ControlForEver == Spec => ControllerIsForever
<1>1. IInv /\ [Next]_registryVars =>
         [\A d \in Dids : \A doc \in documents[d] :
             \E new \in documents'[d] : new.controller = doc.controller]_registryVars
  BY StepKeepsControllers
<1> QED BY <1>1, Invariance, PTL DEF Spec, ControllerIsForever

-----------------------------------------------------------------------------
(* Refinement.                                                             *)

\* What credential_status answers of a stored record.
LEMMA StatusChosen ==
    ASSUME NEW rec \in Credential, NEW o, o = {rec}
    PROVE  (CHOOSE s \in {"Valid", "Revoked"} : \E r \in o : r.status = s) = rec.status
BY DEF Credential

\* Two states with the same documents give the same answer of resolve_did.
LEMMA AnswersOfDocument ==
    /\ \A d \in Dids : documents[d] = {} => ResolveDid(d) = "absent"
    /\ \A d \in Dids : \A doc \in Document : documents[d] = {doc} =>
          ResolveDid(d) = IF doc.deactivated THEN "deactivated" ELSE "active"
    /\ \A d \in Dids : documents'[d] = {} => ResolveDid(d)' = "absent"
    /\ \A d \in Dids : \A doc \in Document : documents'[d] = {doc} =>
          ResolveDid(d)' = IF doc.deactivated THEN "deactivated" ELSE "active"
    /\ \A d \in Dids : documents'[d] = documents[d] => ResolveDid(d)' = ResolveDid(d)
BY DEF ResolveDid

\* The same for credential_status.
LEMMA AnswersOfCredential ==
    /\ \A h \in Hashes : credentials[h] = {} => CredentialStatus(h) = "absent"
    /\ \A h \in Hashes : \A rec \in Credential :
          credentials[h] = {rec} => CredentialStatus(h) = rec.status
    /\ \A h \in Hashes : \A rec \in Credential :
          credentials'[h] = {rec} => CredentialStatus(h)' = rec.status
    /\ \A h \in Hashes : credentials'[h] = credentials[h] =>
          CredentialStatus(h)' = CredentialStatus(h)
<1>1. \A h \in Hashes : credentials[h] = {} => CredentialStatus(h) = "absent"
  BY DEF CredentialStatus
<1>2. ASSUME NEW h \in Hashes, NEW rec \in Credential, credentials[h] = {rec}
      PROVE  CredentialStatus(h) = rec.status
  <2>1. credentials[h] # {}
    BY <1>2
  <2>2. (CHOOSE s \in {"Valid", "Revoked"} : \E r \in credentials[h] : r.status = s) = rec.status
    BY <1>2, StatusChosen
  <2> QED BY <2>1, <2>2 DEF CredentialStatus
<1>3. ASSUME NEW h \in Hashes, NEW rec \in Credential, credentials'[h] = {rec}
      PROVE  CredentialStatus(h)' = rec.status
  <2>1. credentials'[h] # {}
    BY <1>3
  <2>2. (CHOOSE s \in {"Valid", "Revoked"} : \E r \in credentials'[h] : r.status = s) = rec.status
    BY <1>3, StatusChosen
  <2> QED BY <2>1, <2>2 DEF CredentialStatus
<1>4. ASSUME NEW h \in Hashes, credentials'[h] = credentials[h]
      PROVE  CredentialStatus(h)' = CredentialStatus(h)
  BY <1>4 DEF CredentialStatus
<1> QED BY <1>1, <1>2, <1>3, <1>4

DidStatusMap == [d \in Dids |-> ResolveDid(d)]
VcStatusMap == [h \in Hashes |-> CredentialStatus(h)]

\* Rewriting one document changes the answer about one DID.
LEMMA OneDidChanges ==
    ASSUME IInv, NEW d \in Dids, NEW b \in Document,
           documents' = [documents EXCEPT ![d] = {b}]
    PROVE  DidStatusMap' = [DidStatusMap EXCEPT
              ![d] = IF b.deactivated THEN "deactivated" ELSE "active"]
<1>1. documents \in [Dids -> Option(Document)]
  BY DEF IInv, RegistryInv, TypeOK
<1>2. documents'[d] = {b} /\ \A e \in Dids \ {d} : documents'[e] = documents[e]
  BY <1>1
<1>3. ResolveDid(d)' = IF b.deactivated THEN "deactivated" ELSE "active"
  BY <1>2, AnswersOfDocument
<1>4. \A e \in Dids \ {d} : ResolveDid(e)' = ResolveDid(e)
  BY <1>2, AnswersOfDocument
<1> QED BY <1>3, <1>4 DEF DidStatusMap

\* Writing one credential changes the answer about one hash.
LEMMA OneHashChanges ==
    ASSUME IInv, NEW h \in Hashes, NEW rec \in Credential,
           credentials' = [credentials EXCEPT ![h] = {rec}]
    PROVE  VcStatusMap' = [VcStatusMap EXCEPT ![h] = rec.status]
<1>1. credentials \in [Hashes -> Option(Credential)]
  BY DEF IInv, RegistryInv, TypeOK
<1>2. credentials'[h] = {rec} /\ \A g \in Hashes \ {h} : credentials'[g] = credentials[g]
  BY <1>1
<1>3. CredentialStatus(h)' = rec.status
  BY <1>2, AnswersOfCredential
<1>4. \A g \in Hashes \ {h} : CredentialStatus(g)' = CredentialStatus(g)
  BY <1>2, AnswersOfCredential
<1> QED BY <1>3, <1>4 DEF VcStatusMap

\* Records that stay as they are answer as before.
LEMMA SameAnswers ==
    /\ documents' = documents => DidStatusMap' = DidStatusMap
    /\ credentials' = credentials => VcStatusMap' = VcStatusMap
BY AnswersOfDocument, AnswersOfCredential DEF DidStatusMap, VcStatusMap

\* Every step of the registry is a step of the lifecycle or invisible to it.
LEMMA StepImplements ==
    ASSUME IInv, [Next]_registryVars
    PROVE  [Lifecycle!Next]_<<DidStatusMap, VcStatusMap>>
<1> USE DEF DidStatusMap, VcStatusMap
<1>1. ASSUME NEW d \in Dids, NEW a \in Accounts, DoRegister(d, a)
      PROVE  Lifecycle!Register(d)
  <2> DEFINE new == [controller |-> a, deactivated |-> FALSE, version |-> 0]
  <2>1. documents[d] = {} /\ documents' = [documents EXCEPT ![d] = {new}]
        /\ credentials' = credentials
    BY <1>1 DEF DoRegister
  <2>2. new \in Document /\ ~new.deactivated
    BY VersionAssumption DEF Document
  <2>3. ResolveDid(d) = "absent"
    BY <2>1, AnswersOfDocument
  <2> HIDE DEF new
  <2>4. DidStatusMap' = [DidStatusMap EXCEPT ![d] = "active"]
    BY <2>1, <2>2, OneDidChanges
  <2>5. VcStatusMap' = VcStatusMap
    BY <2>1, SameAnswers
  <2> QED BY <2>3, <2>4, <2>5 DEF Lifecycle!Register
<1>2. ASSUME NEW d \in SorobanDids, RegisterSorobanDid(d) PROVE Lifecycle!Register(d) /\ d \in Dids
  BY <1>1, <1>2, SorobanAssumption DEF RegisterSorobanDid
<1>3. ASSUME NEW d \in Dids, UpdateDid(d)
      PROVE  UNCHANGED <<DidStatusMap, VcStatusMap>>
  <2>1. PICK doc \in documents[d], b \in Document :
           ~doc.deactivated /\ ~b.deactivated /\ documents' = [documents EXCEPT ![d] = {b}]
    BY <1>3, UpdateRewrites
  <2>2. ResolveDid(d) = "active"
    BY <2>1, DocumentTyped, AnswersOfDocument
  <2>3. DidStatusMap' = [DidStatusMap EXCEPT ![d] = "active"]
    BY <2>1, OneDidChanges
  <2>4. VcStatusMap' = VcStatusMap
    BY <1>3, SameAnswers DEF UpdateDid
  <2> QED BY <2>2, <2>3, <2>4
<1>4. ASSUME NEW d \in Dids, DeactivateDid(d) PROVE Lifecycle!Deactivate(d)
  <2>1. PICK doc \in documents[d], b \in Document :
           ~doc.deactivated /\ b.deactivated /\ documents' = [documents EXCEPT ![d] = {b}]
    BY <1>4, DeactivateRewrites
  <2>2. ResolveDid(d) = "active"
    BY <2>1, DocumentTyped, AnswersOfDocument
  <2>3. DidStatusMap' = [DidStatusMap EXCEPT ![d] = "deactivated"]
    BY <2>1, OneDidChanges
  <2>4. VcStatusMap' = VcStatusMap
    BY <1>4, SameAnswers DEF DeactivateDid
  <2> QED BY <2>2, <2>3, <2>4 DEF Lifecycle!Deactivate
<1>5. ASSUME NEW h \in Hashes, NEW d \in Dids, AnchorCredential(h, d) PROVE Lifecycle!Anchor(h)
  <2> DEFINE rec == [issuer |-> d, status |-> "Valid"]
  <2>1. credentials[h] = {} /\ credentials' = [credentials EXCEPT ![h] = {rec}]
        /\ documents' = documents /\ \E doc \in documents[d] : ~doc.deactivated
    BY <1>5 DEF AnchorCredential
  <2>2. rec \in Credential /\ rec.status = "Valid"
    BY DEF Credential
  <2>3. CredentialStatus(h) = "absent"
    BY <2>1, AnswersOfCredential
  <2>4. ResolveDid(d) = "active"
    BY <2>1, DocumentTyped, AnswersOfDocument
  <2> HIDE DEF rec
  <2>5. VcStatusMap' = [VcStatusMap EXCEPT ![h] = "Valid"]
    BY <2>1, <2>2, OneHashChanges
  <2>6. DidStatusMap' = DidStatusMap
    BY <2>1, SameAnswers
  <2> QED BY <2>3, <2>4, <2>5, <2>6 DEF Lifecycle!Anchor
<1>6. ASSUME NEW h \in Hashes, RevokeCredential(h) PROVE Lifecycle!Revoke(h)
  <2>1. PICK rec \in credentials[h] :
           /\ rec.status # "Revoked"
           /\ credentials' = [credentials EXCEPT ![h] = {[rec EXCEPT !.status = "Revoked"]}]
    BY <1>6 DEF RevokeCredential
  <2>2. rec \in Credential /\ credentials[h] = {rec}
    BY OptionSome DEF IInv, RegistryInv, TypeOK
  <2> DEFINE new == [rec EXCEPT !.status = "Revoked"]
  <2>3. new \in Credential /\ new.status = "Revoked" /\ rec.status = "Valid"
    BY <2>1, <2>2 DEF Credential
  <2>4. CredentialStatus(h) = "Valid"
    BY <2>2, <2>3, AnswersOfCredential
  <2>5. VcStatusMap' = [VcStatusMap EXCEPT ![h] = "Revoked"]
    BY <2>1, <2>3, OneHashChanges
  <2>6. DidStatusMap' = DidStatusMap
    BY <1>6, SameAnswers DEF RevokeCredential
  <2> QED BY <2>4, <2>5, <2>6 DEF Lifecycle!Revoke
<1>7. CASE UNCHANGED <<documents, credentials>>
  BY <1>7, SameAnswers
<1> QED BY <1>1, <1>2, <1>3, <1>4, <1>5, <1>6, <1>7
        DEF Next, Lifecycle!Next, TransferOwnership, Pause, Unpause, RegisterDid, registryVars

\* The contract implements the lifecycle that its callers rely on, for any
\* DIDs, accounts and hashes: what resolve_did and credential_status answer
\* changes only by registration, deactivation, anchoring and revocation.
THEOREM RegistryImplementsLifecycle == Spec => ImplementsLifecycle
<1>1. Init => Lifecycle!Init
  BY AnswersOfDocument, AnswersOfCredential DEF Init, Lifecycle!Init
<1>2. IInv /\ [Next]_registryVars => [Lifecycle!Next]_(Lifecycle!lifecycleVars)
  BY StepImplements DEF Lifecycle!lifecycleVars, DidStatusMap, VcStatusMap
<1> QED BY <1>1, <1>2, Invariance, PTL DEF Spec, ImplementsLifecycle, Lifecycle!Spec

=============================================================================
