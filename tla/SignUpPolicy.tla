------------------------------ MODULE SignUpPolicy ------------------------------
(***************************************************************************)
(* Who may get an account under which address: the domain rules of         *)
(* domains.ts and reserved.ts, the password sign-up guard and the SSO      *)
(* registration guard of plugins.ts, the Microsoft and Google providers,   *)
(* the resolver of sso.ts, and the checks of createIdentity that decide    *)
(* which of them exist.                                                    *)
(*                                                                         *)
(* A domain is the sequence of its labels from the right, <<"vn", "qnsc">> *)
(* for qnsc.vn, so that a sub-domain is an extension; an address with two  *)
(* @ has the domain <<>>.  A provider decides in one step and Better Auth  *)
(* (external) writes in a later one, except for SSO, whose resolver runs   *)
(* in the transaction of the write.                                        *)
(***************************************************************************)
EXTENDS Naturals, FiniteSets, Sequences, SequencesExt
CONSTANTS PolicyAddresses,     \* the mailboxes
          DomainOf,      \* [Addresses -> label sequences]
          Setups,        \* the options createIdentity is called with
          SharedLabels,  \* second-level labels registries hand out to everyone
          Entra,         \* the objects (oid) of the Entra tenant
          Guests,        \* those that are B2B guests
          Profiles,      \* the mail and principal name an administrator may give one
          FirstProfile,  \* [Entra -> Profiles]
          SsoProviders,  \* ids of SSO providers, each of an organization of its own
          Claims,        \* the domain lists a provider may claim
          SignIns,       \* requests in flight
          NoUser, NoMail,
          MaxEdits       \* bound on changes of mail attributes in Entra
ASSUME PolicyAssumption ==
  /\ Guests \subseteq Entra
  /\ DomainOf \in [PolicyAddresses -> Seq(STRING)]
  /\ FirstProfile \in [Entra -> Profiles]
  /\ \A profile \in Profiles : {profile.mail, profile.upn} \subseteq PolicyAddresses \cup {NoMail}
  /\ \A o \in Setups : \A e \in o.staff : e.host \in Seq(STRING)
  /\ \A ds \in Claims : ds \subseteq Seq(STRING) \ {<<>>}   \* parseDomains drops empty entries
  /\ NoMail \notin PolicyAddresses
  /\ MaxEdits \in Nat
VARIABLES options,    \* the options the process was started with
          users,      \* the user table, by email
          sso,        \* the ssoProvider table
          entra,      \* mail and user principal name of each Entra object
          calls,      \* sign-ins between the provider's decision and the write
          edits
policyVars == <<options, users, sso, entra, calls, edits>>

---------------------------------------------------------------------------
(* domains.ts *)
DomainIn(d, ds) == d # <<>> /\ \E x \in ds : IsPrefix(x, d)

\* A staff entry matches itself, or with *. what is strictly below it.
StaffDomainIn(d, entries) ==
  \E e \in entries : IF e.wild THEN IsStrictPrefix(e.host, d) ELSE d = e.host
StaffDomainsOK(entries) ==
  \A e \in entries : e.wild => Len(e.host) > 1 /\ ~(Len(e.host) = 2 /\ e.host[2] \in SharedLabels)
StaffReservedDomains(entries) == {e.host : e \in entries}

(* createIdentity: presets are "public", "staff", "organizations" *)
Configured(o) ==
  /\ o.presets # {}
  /\ "staff" \in o.presets => o.staff # {}
  /\ StaffDomainsOK(o.staff)
Has(preset) == preset \in options.presets

\* reservedDomainCheck: staff domains and their sub-domains, and verified SSO domains.
Reserved(a) ==
  LET d == DomainOf[a]
  IN  \/ d = <<>>
      \/ DomainIn(d, StaffReservedDomains(options.staff))
      \/ Has("organizations") /\ \E p \in SsoProviders : sso[p].verified /\ DomainIn(d, sso[p].domains)

---------------------------------------------------------------------------
Credential(a) == [via |-> "credential", id |-> a]
Google(a) == [via |-> "google", id |-> a]
Microsoft(x) == [via |-> "microsoft", id |-> x]
Sso(p) == [via |-> "sso", id |-> p]
NewUser(id, verified) == [accounts |-> {id}, by |-> id, verified |-> verified, member |-> {}, let |-> {}]

\* replaceUnverifiedAccount: an unverified user with nothing but a password goes.
Replaceable(a) == users[a] # NoUser /\ ~users[a].verified /\ users[a].accounts = {Credential(a)}
WithoutSquatter(a) == IF Replaceable(a) THEN [users EXCEPT ![a] = NoUser] ELSE users

NoCall == [id |-> Credential(NoMail), email |-> NoMail, verified |-> FALSE]
Decides(c, id, a, verified) ==
  /\ calls[c] = NoCall
  /\ calls' = [calls EXCEPT ![c] = [id |-> id, email |-> a, verified |-> verified]]
  /\ UNCHANGED <<options, sso, entra, edits>>

\* companyDomainSignUpGuard
SignUp(c, a) ==
  /\ Has("public") /\ ~Reserved(a)
  /\ Decides(c, Credential(a), a, FALSE) /\ UNCHANGED users

\* googleProvider.getUserInfo
GoogleDecides(c, a, verified) ==
  /\ Has("public") /\ ~Reserved(a)
  /\ Decides(c, Google(a), a, verified)
  /\ users' = IF verified THEN WithoutSquatter(a) ELSE users

\* Mutant: a guest's address is passed on as verified.
MutGuestDecides(c, x) ==
  LET a == entra[x].mail
  IN  /\ Has("staff") /\ x \in Guests /\ options.allowGuests /\ a # NoMail
      /\ users[a] # NoUser => Microsoft(x) \in users[a].accounts
      /\ Decides(c, Microsoft(x), a, TRUE) /\ UNCHANGED users
\* microsoftProvider.getUserInfo for a guest: only an address nobody has, or its own.
GuestDecides(c, x) ==
  LET a == entra[x].mail
  IN  /\ Has("staff") /\ x \in Guests /\ options.allowGuests /\ a # NoMail
      /\ users[a] # NoUser => Microsoft(x) \in users[a].accounts
      /\ Decides(c, Microsoft(x), a, FALSE) /\ UNCHANGED users

\* ... and for a member: mail and principal name on a staff domain, and no other
\* Microsoft identity on the user of that address unless this one is known.
OnStaff(a) == a # NoMail /\ StaffDomainIn(DomainOf[a], options.staff)
Known(x) == \E a \in PolicyAddresses : users[a] # NoUser /\ Microsoft(x) \in users[a].accounts
OtherIdentity(x, a) ==
  users[a] # NoUser /\ LET held == {id \in users[a].accounts : id.via = "microsoft"}
                       IN  held # {} /\ Microsoft(x) \notin held
MemberDecides(c, x) ==
  LET a == entra[x].mail
  IN  /\ Has("staff") /\ x \notin Guests /\ OnStaff(a)
      /\ options.requireUpn => OnStaff(entra[x].upn)
      /\ Known(x) \/ ~OtherIdentity(x, a)
      /\ Decides(c, Microsoft(x), a, TRUE)
      /\ users' = WithoutSquatter(a)

---------------------------------------------------------------------------
(* What Better Auth writes (external): the owner of the identity signs in; *)
(* else an existing user of the address is linked if the provider vouches  *)
(* for the address; else a user is created.                                *)
Owner(id) == {a \in PolicyAddresses : users[a] # NoUser /\ id \in users[a].accounts}
Written(us, id, a, verified, let) ==
  IF us[a] = NoUser THEN [us EXCEPT ![a] = NewUser(id, verified)]
  ELSE [us EXCEPT ![a].accounts = @ \cup {id}, ![a].let = @ \cup let]
Writes(c) ==
  LET k == calls[c]
  IN  /\ k # NoCall
      /\ calls' = [calls EXCEPT ![c] = NoCall]
      /\ users' = IF Owner(k.id) # {} \/ (users[k.email] # NoUser /\ ~k.verified) THEN users
                  ELSE Written(users, k.id, k.email, k.verified, {})
      /\ UNCHANGED <<options, sso, entra, edits>>

\* ssoPlugin.resolveUser, in the transaction of the write.
ResolveUser(p, a) ==
  LET left == WithoutSquatter(a)
      joins == left[a] = NoUser \/ p \in left[a].member
  IN  /\ Has("organizations") /\ sso[p].verified
      /\ DomainIn(DomainOf[a], sso[p].domains)
      /\ users' = IF Owner(Sso(p)) = {} /\ joins THEN Written(left, Sso(p), a, TRUE, {p}) ELSE left
      /\ UNCHANGED <<options, sso, entra, calls, edits>>

---------------------------------------------------------------------------
\* ssoRegistrationGuard: no claim above, at or below a staff domain.
ReservedClaim(ds) ==
  LET staff == StaffReservedDomains(options.staff)
  IN  \E d \in ds : DomainIn(d, staff) \/ \E s \in staff : DomainIn(s, {d})
\* /sso/register and /sso/update-provider; a changed domain is to be proved again.
Registers(p, ds) ==
  /\ Has("organizations") /\ ~ReservedClaim(ds) /\ sso[p].domains # ds
  /\ sso' = [sso EXCEPT ![p] = [domains |-> ds, verified |-> FALSE]]
  /\ UNCHANGED <<options, users, entra, calls, edits>>
ProvesDomain(p) ==
  /\ sso[p].domains # {} /\ ~sso[p].verified
  /\ sso' = [sso EXCEPT ![p].verified = TRUE]
  /\ UNCHANGED <<options, users, entra, calls, edits>>
Joins(a, p) ==
  /\ Has("organizations") /\ users[a] # NoUser /\ users[a].verified /\ p \notin users[a].member
  /\ users' = [users EXCEPT ![a].member = @ \cup {p}]
  /\ UNCHANGED <<options, sso, entra, calls, edits>>
VerifiesEmail(a) ==
  /\ users[a] # NoUser /\ ~users[a].verified /\ Credential(a) \in users[a].accounts
  /\ users' = [users EXCEPT ![a].verified = TRUE]
  /\ UNCHANGED <<options, sso, entra, calls, edits>>
EditsMail(x, profile) ==
  /\ edits < MaxEdits /\ edits' = edits + 1 /\ entra[x] # profile
  /\ entra' = [entra EXCEPT ![x] = profile]
  /\ UNCHANGED <<options, users, sso, calls>>

PolicyInit ==
  /\ options \in {o \in Setups : Configured(o)}
  /\ users = [a \in PolicyAddresses |-> NoUser]
  /\ sso = [p \in SsoProviders |-> [domains |-> {}, verified |-> FALSE]]
  /\ entra = FirstProfile
  /\ calls = [c \in SignIns |-> NoCall]
  /\ edits = 0
PolicyNext ==
  \/ \E c \in SignIns : Writes(c)
  \/ \E c \in SignIns, a \in PolicyAddresses :
       SignUp(c, a) \/ \E v \in BOOLEAN : GoogleDecides(c, a, v)
  \/ \E c \in SignIns, x \in Entra : GuestDecides(c, x) \/ MemberDecides(c, x)
  \/ \E p \in SsoProviders, a \in PolicyAddresses : ResolveUser(p, a) \/ Joins(a, p)
  \/ \E p \in SsoProviders : ProvesDomain(p) \/ \E ds \in Claims : Registers(p, ds)
  \/ \E a \in PolicyAddresses : VerifiesEmail(a)
  \/ \E x \in Entra, profile \in Profiles : EditsMail(x, profile)
PolicySpec == PolicyInit /\ [][PolicyNext]_policyVars

---------------------------------------------------------------------------
\* The options passed createIdentity's checks and every row is well formed; a user
\* with a Google identity or a password holds the one of its own address.
PolicyTypeOK ==
  /\ options \in Setups /\ Configured(options)
  /\ \A a \in PolicyAddresses : users[a] # NoUser =>
       /\ users[a].by \in users[a].accounts
       /\ \A id \in users[a].accounts : id.via \in {"credential", "google"} => id.id = a
       /\ \A id \in users[a].accounts : Owner(id) = {a}
  /\ \A p \in SsoProviders : sso[p].verified => sso[p].domains # {}
  /\ edits \in 0 .. MaxEdits

\* An address under a staff domain (or with no domain that can be named) never gets
\* an account through a password, Google or an organization's SSO: whatever the
\* providers claim, verify or change while sign-ins are in flight, the only way in
\* is the company's own tenant (reserved.ts, plugins.ts).
StaffOnlyEntra ==
  \A a \in PolicyAddresses :
    (DomainOf[a] = <<>> \/ DomainIn(DomainOf[a], StaffReservedDomains(options.staff)))
      => users[a] = NoUser \/ \A id \in users[a].accounts : id.via = "microsoft"

\* A member of the tenant gets an account only on an address that IS staff: reserved
\* sub-domains stay closed to the tenant too (providers.ts, microsoftProvider).
MembersOnStaff ==
  \A a \in PolicyAddresses, x \in Entra \ Guests :
    users[a] # NoUser /\ Microsoft(x) \in users[a].accounts => StaffDomainIn(DomainOf[a], options.staff)

\* A guest of the tenant signs in only to the user it created, even when a user of
\* its address appears between its check and the write (providers.ts, "even in a race").
GuestOwn ==
  \A a \in PolicyAddresses, x \in Guests :
    users[a] # NoUser /\ Microsoft(x) \in users[a].accounts => users[a].by = Microsoft(x)

\* A partner's identity provider enters a user it did not create only when that user
\* belonged to its organization (sso.ts, D15), and never one outside any domain it proved.
SsoInside ==
  \A a \in PolicyAddresses, p \in SsoProviders :
    users[a] # NoUser /\ Sso(p) \in users[a].accounts =>
      users[a].by = Sso(p) \/ (p \in users[a].let /\ p \in users[a].member)

\* A member never links to a user that already holds a different Microsoft identity
\* (providers.ts, microsoftProvider): one user, one identity.
OneIdentity ==
  \A a \in PolicyAddresses : users[a] # NoUser =>
    Cardinality({id \in users[a].accounts : id.via = "microsoft"}) <= 1

\* Who may hold which address: staff addresses only through Entra members, guests only their own
\* account, and SSO only inside its proven domains.
PolicySafe == PolicyTypeOK /\ StaffOnlyEntra /\ MembersOnStaff /\ GuestOwn /\ SsoInside
=============================================================================
