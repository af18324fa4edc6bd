---- MODULE SessionsMC ----
(***************************************************************************)
(* Two accounts that may come with one address, and two configurations     *)
(* the process may start with, for TLC.                                    *)
(***************************************************************************)
EXTENDS Sessions, TLC

CONSTANTS ann, bob, b1, b2, l1, l2

MCAddresses == {"", "Ann@X ", "ann@x", "ann@y", "bob@z", "@x", "x", "y", "z"}
MCnormalizeAddress == ("Ann@X " :> "ann@x") @@ [s \in MCAddresses |-> s]
MCemailDomain == ("ann@x" :> "x") @@ ("ann@y" :> "y") @@ ("bob@z" :> "z")
                 @@ [s \in MCAddresses |-> ""]
MCWithoutAt == ("@x" :> "x") @@ [s \in MCAddresses |-> s]

Profile(email, hd) == [email |-> email, verified |-> TRUE, hd |-> hd]
MCProfiles == (ann :> {Profile("Ann@X ", "x"), Profile("ann@y", "")})
              @@ (bob :> {Profile("bob@z", "x"), Profile("ann@y", "")})

Start(browser, account) == [browser |-> browser, account |-> account]
MCStarts == (l1 :> {Start(b1, ann)})
            @@ (l2 :> {Start(b1, ann), Start(b2, ann), Start(b2, bob)})
MCCalls == [browser : {b1}, op : {"api", "logout"}]

MCAllowlists == {NewAllowlist({"@x"}, {"ann@y"}), NewAllowlist({}, {"ann@y"})}
====
