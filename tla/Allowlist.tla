----------------------------- MODULE Allowlist ------------------------------
(***************************************************************************)
(* Which accounts may sign in, and which may go on using their sessions    *)
(* (auth/allowlist.go).                                                    *)
(***************************************************************************)
EXTENDS Naturals

CONSTANTS Addresses,         \* texts: email addresses and domains
          normalizeAddress,  \* on them: trimmed and lower-cased
          emailDomain,       \* what follows the @ of an address, or ""
          WithoutAt          \* a domain without a leading @

ASSUME AddressAssumption ==
  /\ "" \in Addresses
  /\ {normalizeAddress, emailDomain, WithoutAt} \subseteq [Addresses -> Addresses]

NewAllowlist(domains, emails) ==
  [domains |-> {WithoutAt[normalizeAddress[d]] : d \in domains} \ {""},
   emails  |-> {normalizeAddress[e] : e \in emails} \ {""}]

IsEmpty(list) == list.domains = {} /\ list.emails = {}

(* Claims of a Google account: its email, whether that is verified, and the
   Workspace domain hd that manages it, "" for a consumer account. *)
Claims == [email : Addresses, verified : BOOLEAN, hd : Addresses]

AllowsLogin(list, claims) ==
  LET email == normalizeAddress[claims.email]
      hosted == normalizeAddress[claims.hd]
  IN \/ IsEmpty(list)
     \/ email \in list.emails
     \/ hosted # "" /\ emailDomain[email] = hosted /\ hosted \in list.domains

AllowsEmail(list, email) ==
  LET address == normalizeAddress[email]
  IN \/ IsEmpty(list)
     \/ address \in list.emails
     \/ emailDomain[address] # "" /\ emailDomain[address] \in list.domains
=============================================================================
