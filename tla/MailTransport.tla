--------------------------- MODULE MailTransport ---------------------------
(***************************************************************************)
(* The mail transport of a process: readMailConfig (config.ts) and         *)
(* createEmailSender (factory.ts), validateMessage (message.ts), and a     *)
(* send over SMTP (smtp.ts) whose error decides whether the message is     *)
(* tried again (errors.ts).  What Graph does with a send, and the ledger,  *)
(* are module MailSend's.  A message that fails for good is given up by    *)
(* the job; one that fails for now is delivered to the sender again        *)
(* (external: the job queue), up to MaxTries times.                        *)
(***************************************************************************)
EXTENDS Integers, FiniteSets

CONSTANTS
    MailEnvs,      \* what the environment says: records of production, transport, named, port, federated, path, inline, secret
    Mails,         \* messages: records of to, cc, from, broken
    MaxRecipients, \* MESSAGE_LIMITS.maxRecipients
    MaxTries       \* bound: deliveries of a message

ASSUME MailTransportAssumption ==
    MaxRecipients \in Nat /\ MaxTries \in Nat /\ \A m \in Mails : m.from \in {"omitted", "mailbox", "other"}

VARIABLES
    mailEnv,   \* fixed
    transport, \* [kind, credential]: the sender; kind "none" before, "refused" after a MailConfigError
    mails,     \* [Mails -> [pc, tries, code]]
    accepted,  \* history: [Mails -> messages the provider accepted]
    answers    \* history: [Mails -> what the provider answered last]

transportVars == <<mailEnv, transport, mails, accepted, answers>>

TransportInit ==
    /\ mailEnv \in MailEnvs /\ transport = [kind |-> "none", credential |-> "none"]
    /\ mails = [m \in Mails |-> [pc |-> "queued", tries |-> 0, code |-> "none"]]
    /\ accepted = [m \in Mails |-> 0] /\ answers = [m \in Mails |-> "none"]

-----------------------------------------------------------------------------
(* readMailConfig and createEmailSender *)

\* certificatePem and certificatePemFromPath: one readable RSA key with its own certificate.
PemOK(pem) == pem = "pair"

\* The credential is the first that is set; what is set and wrong is an error, not skipped.
\* Mutant: a broken certificate falls through to the secret, which production takes too.
MutCredential(e) ==
    IF e.federated THEN "workload-identity"
    ELSE IF PemOK(e.path) \/ PemOK(e.inline) THEN "certificate"
    ELSE IF e.secret THEN "client-secret" ELSE "refused"
Credential(e) ==
    IF e.federated THEN "workload-identity"
    ELSE IF e.path # "unset" THEN (IF PemOK(e.path) THEN "certificate" ELSE "refused")
    ELSE IF e.inline # "unset" THEN (IF PemOK(e.inline) THEN "certificate" ELSE "refused")
    ELSE IF e.secret /\ ~e.production THEN "client-secret" ELSE "refused"

SmtpOK(e) == ~e.production /\ e.port \in 1..65535
ConfigOf(e) ==
    CASE e.transport = "smtp" /\ SmtpOK(e) -> [kind |-> "smtp", credential |-> "none"]
      [] e.transport = "graph" /\ e.named /\ Credential(e) # "refused" -> [kind |-> "graph",
          credential |-> Credential(e)]
      [] OTHER -> [kind |-> "refused", credential |-> "none"]
CreateSender ==
    /\ transport.kind = "none" /\ transport' = ConfigOf(mailEnv)
    /\ UNCHANGED <<mailEnv, mails, accepted, answers>>

-----------------------------------------------------------------------------
(* validateMessage and assertFromIsMailbox *)

\* Every address, the number of recipients, subject, bodies, headers, category and key.
ValidMail(m) == m.to > 0 /\ m.to + m.cc <= MaxRecipients /\ m.broken = {}
FromOK(m) == m.from \in {"omitted", "mailbox"}

\* MailSendError.retryable.
Retryable(code) == code \in {"unauthenticated", "throttled", "unavailable", "network", "timeout"}
Settled(m, code) ==
    mails' = [mails EXCEPT ![m].tries = @ + 1, ![m].code = code,
                           ![m].pc = IF code = "none" THEN "sent" ELSE IF Retryable(code) THEN "failed"
                               ELSE "given up"]

InvalidMail(m) ==
    /\ transport.kind \in {"smtp", "graph"} /\ mails[m].pc = "queued"
    /\ ~(ValidMail(m) /\ FromOK(m)) /\ Settled(m, "invalid_message")
    /\ UNCHANGED <<mailEnv, transport, accepted, answers>>
Aborted(m) ==
    /\ transport.kind = "smtp" /\ mails[m].pc = "queued" /\ ValidMail(m) /\ FromOK(m)
    /\ Settled(m, "timeout") /\ UNCHANGED <<mailEnv, transport, accepted, answers>>
HandOver(m) ==
    /\ transport.kind = "smtp" /\ mails[m].pc = "queued" /\ ValidMail(m) /\ FromOK(m)
    /\ mails' = [mails EXCEPT ![m].pc = "open"] /\ answers' = [answers EXCEPT ![m] = "none"]
    /\ UNCHANGED <<mailEnv, transport, accepted>>

-----------------------------------------------------------------------------
(* SmtpSender.send after sendMail *)

\* 5xx is permanent, everything else a network error.
SmtpCode(answer) == IF answer = "5xx" THEN "invalid_message" ELSE "network"

\* The server takes the message; its reply arrives or is lost with the connection.
ServerAccepts(m, lost) ==
    /\ mails[m].pc = "open" /\ accepted' = [accepted EXCEPT ![m] = @ + 1]
    /\ answers' = [answers EXCEPT ![m] = IF lost THEN "lost" ELSE "2xx"]
    /\ Settled(m, IF lost THEN SmtpCode("lost") ELSE "none")
    /\ UNCHANGED <<mailEnv, transport>>
ServerRefuses(m, answer) ==
    /\ mails[m].pc = "open" /\ answers' = [answers EXCEPT ![m] = answer]
    /\ Settled(m, SmtpCode(answer)) /\ UNCHANGED <<mailEnv, transport, accepted>>
Redeliver(m) ==
    /\ mails[m].pc = "failed" /\ mails[m].tries < MaxTries
    /\ mails' = [mails EXCEPT ![m].pc = "queued"] /\ UNCHANGED <<mailEnv, transport, accepted, answers>>

TransportNext ==
    \/ CreateSender
    \/ \E m \in Mails :
         \/ InvalidMail(m) \/ Aborted(m) \/ HandOver(m) \/ Redeliver(m)
         \/ \E lost \in BOOLEAN : ServerAccepts(m, lost)
         \/ \E answer \in {"lost", "4xx", "5xx"} : ServerRefuses(m, answer)

TransportSpec == TransportInit /\ [][TransportNext]_transportVars

-----------------------------------------------------------------------------
(* Properties *)

\* In production mail authenticates with workload identity or a certificate, whatever else the
\* environment holds: a broken certificate never falls through to a secret, or to SMTP.
ProductionCredential ==
    (transport.kind \in {"smtp", "graph"} /\ mailEnv.production) =>
        transport.kind = "graph" /\ transport.credential \in {"workload-identity", "certificate"}

\* The provider never saw an invalid message or another sender's, on any delivery.
OnlyValidHanded == \A m \in Mails : (mails[m].pc = "open" \/ answers[m] # "none") => ValidMail(m)
    /\ m.from # "other"

\* Nobody's mail is given up for a fault that passes: a valid message is given up only on a 5xx
\* reply; a lost reply, a refused connection or a 4xx leaves it for another delivery.
GivenUpForCause ==
    \A m \in Mails : mails[m].pc = "given up" => ~ValidMail(m) \/ m.from = "other" \/ answers[m] = "5xx"

\* The transport, what it is handed and what it gives up.
TransportSafe == ProductionCredential /\ OnlyValidHanded /\ GivenUpForCause
=============================================================================
