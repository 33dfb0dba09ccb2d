----------------------------- MODULE SsoSecrets -----------------------------
(***************************************************************************)
(* SSO client secrets at rest: parseKeyring, sealOidcConfig and            *)
(* openOidcConfig (sso-crypto.ts) around every read and write of an        *)
(* ssoProvider row (sso-protect.ts), through the adapter or the one a      *)
(* transaction is given.  The keys are rotated by rolling deployments      *)
(* while pods read, save and re-save; rows of the migration tooling and    *)
(* rows from before are sealed or plain (external: AES-256-GCM opens with  *)
(* the key that sealed, and with no other).                                *)
(***************************************************************************)
EXTENDS Integers, FiniteSets, FiniteSetsExt

CONSTANTS
    Providers,  \* rows of sso_provider
    SsoPods,    \* processes
    ClientKeys, \* client secrets an administrator enters
    MaxSaves    \* bound: writes

ASSUME SsoAssumption ==
    /\ MaxSaves \in Nat
    /\ "none" \notin Providers /\ "none" \notin ClientKeys /\ "error" \notin ClientKeys

VARIABLES
    column,   \* [Providers -> [form, ver, text]]: oidc_config.clientSecret as stored
    rings,    \* [SsoPods -> set of key versions]: the pod's keyring; {}: it did not start
    env,      \* IDENTITY_ENCRYPTION_KEY of the deployment: set of versions
    opened,   \* [SsoPods -> [of, text]]: what the pod's last read gave the SSO plugin
    current,  \* history: [Providers -> the secret saved last]
    byCode,   \* history: rows last written through the adapter
    saves

ssoVars == <<column, rings, env, opened, current, byCode, saves>>

Versions == 1..2
Nothing == [of |-> "none", text |-> "none"]

SsoInit ==
    /\ current \in [Providers -> ClientKeys]
    /\ \E forms \in [Providers -> {"plain", "sealed"}] :
         column = [r \in Providers |-> [form |-> forms[r], ver |-> 1, text |-> current[r]]]
    /\ env = {1} /\ rings = [p \in SsoPods |-> {1}] /\ opened = [p \in SsoPods |-> Nothing]
    /\ byCode = {} /\ saves = 0

-----------------------------------------------------------------------------
(* encryptSecret, decryptSecret, and the patched adapter *)

\* Mutant: the lowest version is the current one.
MutCurrentOf(ring) == Min(ring)
CurrentOf(ring) == Max(ring)

Seal(v, ring) == IF v.form = "sealed" THEN v ELSE [form |-> "sealed", ver |-> CurrentOf(ring), text |-> v.text]

\* A version without a key, or another key's ciphertext, throws; it is never passed on.
OpenOf(v, ring) == IF v.form = "plain" \/ v.ver \in ring THEN v.text ELSE "error"

\* patch: the adapter, and every adapter a transaction hands out.
Patched(inTransaction) == TRUE

Plainly(text) == [form |-> "plain", ver |-> 0, text |-> text]
WriteRow(p, r, text, tx) ==
    /\ saves < MaxSaves /\ saves' = saves + 1
    /\ column' = [column EXCEPT ![r] = IF Patched(tx) THEN Seal(Plainly(text), rings[p]) ELSE Plainly(text)]
    /\ current' = [current EXCEPT ![r] = text] /\ byCode' = byCode \cup {r}
    /\ UNCHANGED <<rings, env>>

\* create and update seal what they write and open what comes back.
SaveSecret(p, r, text, tx) ==
    /\ rings[p] # {} /\ WriteRow(p, r, text, tx)
    /\ opened' = [opened EXCEPT ![p] = [of |-> r, text |-> text]]
\* findOne, findMany.
ReadRow(p, r) ==
    /\ rings[p] # {}
    /\ opened' = [opened EXCEPT ![p] = [of |-> r, text |-> OpenOf(column[r], rings[p])]]
    /\ UNCHANGED <<column, rings, env, current, byCode, saves>>
\* A row is re-saved with what an earlier read of it gave: the rotation's second step.
Resave(p, tx) ==
    /\ opened[p].of # "none" /\ opened[p].text # "error"
    /\ WriteRow(p, opened[p].of, opened[p].text, tx) /\ UNCHANGED opened
\* sealSsoClientSecret: tooling outside the application writes a row, sealed once.
ToolSeals(r) ==
    /\ column' = [column EXCEPT ![r] = Seal(column[r], env)]
    /\ UNCHANGED <<rings, env, opened, current, byCode, saves>>

-----------------------------------------------------------------------------
(* Rotation: add v2, deploy, re-save, drop v1 when no row carries it *)

AddKey == env = {1} /\ env' = {1, 2} /\ UNCHANGED <<column, rings, opened, current, byCode, saves>>
DropKey ==
    /\ env = {1, 2} /\ \A p \in SsoPods : rings[p] = env
    /\ \A r \in Providers : column[r].form = "sealed" => column[r].ver # 1
    /\ env' = {2} /\ UNCHANGED <<column, rings, opened, current, byCode, saves>>
\* parseKeyring: a pod comes up with the keys of the deployment.
Rolls(p) ==
    /\ rings[p] # env /\ rings' = [rings EXCEPT ![p] = env] /\ opened' = [opened EXCEPT ![p] = Nothing]
    /\ UNCHANGED <<column, env, current, byCode, saves>>

SsoNext ==
    \/ \E p \in SsoPods :
         \/ Rolls(p)
         \/ \E r \in Providers : ReadRow(p, r)
         \/ \E tx \in BOOLEAN :
              Resave(p, tx) \/ \E r \in Providers, text \in ClientKeys : SaveSecret(p, r, text, tx)
    \/ \E r \in Providers : ToolSeals(r)
    \/ AddKey \/ DropKey

SsoSpec == SsoInit /\ [][SsoNext]_ssoVars

-----------------------------------------------------------------------------
(* Properties *)

\* "The column only ever holds enc:vN": whatever the application wrote is sealed at rest, in
\* and outside a transaction.
SealedAtRest == \A r \in byCode : column[r].form = "sealed"

\* The plugin is given a secret an administrator entered or an error, never ciphertext; an
\* error means that a newer pod sealed the row and this one still has the keys of before.
OpenedOrRefused ==
    \A p \in SsoPods :
        /\ opened[p].text \in ClientKeys \cup {"none", "error"}
        /\ opened[p].text = "error" => rings[p] # env

\* A rotation loses nothing: every pod with the keys of the deployment opens every row, and
\* once v1 is dropped no row needs it, though old pods kept saving while the deployment rolled.
RotationKeepsRows ==
    \A p \in SsoPods, r \in Providers : rings[p] = env => OpenOf(column[r], rings[p]) = column[r].text
        /\ column[r].text \in ClientKeys

\* Client secrets through saves, reads and a key rotation.
SsoSafe == SealedAtRest /\ OpenedOrRefused /\ RotationKeepsRows
=============================================================================
