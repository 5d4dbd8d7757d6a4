------------------------------- MODULE AdminTls -------------------------------
(***************************************************************************)
(* appliance/lib/admin_tls.py: the administration's certificate.  Names are *)
(* added to it under the appliance's own authority; an authority that is    *)
(* uploaded replaces five files and the trust of the host and of the kiosk, *)
(* and what it replaced is put back from memory when a step fails.  Traefik *)
(* reads the certificate when its dynamic configuration is written again.   *)
(***************************************************************************)
EXTENDS Integers, Sequences

CONSTANTS
    TlsNames,      \* the names a certificate can be asked for: addresses, the domain's
    Authorities,   \* 1 is the appliance's own
    MaxTlsFaults   \* bound on errors and kills

ASSUME AuthoritiesAssumption == 1 \in Authorities /\ Authorities \subseteq Nat \ {0}

Files == <<"ca.crt", "ca.key", "trust-root.crt", "served ca.crt", "admin.crt">>
Absent == 0
Empty  == -1    \* a file that was touched and not written yet

VARIABLES
    auth,       \* which authority each file of Files is of, or signed by
    leaf,       \* admin.crt: its names
    dynamic,    \* the routing configuration has been moved to where Traefik watches
    system, kiosk,   \* the root that the host, and the browser, trust
    told,       \* Traefik has been told to read again
    loaded,     \* the certificate it uses
    tls,        \* the operation that has the lock
    promised,   \* history: the names of the operations that succeeded
    fresh,      \* history: the last operation succeeded
    torn,       \* history: a rotation was killed after its first replacement
    distrusted, \* history: the kiosk's trust was not put back
    tlsFaults

tlsDisk == <<auth, leaf, dynamic, system, kiosk, told, loaded>>
tlsVars == <<tlsDisk, tls, promised, fresh, torn, distrusted, tlsFaults>>

NoTls == [kind |-> "none", step |-> "none", file |-> 1, new |-> 1, names |-> {}, old |-> <<>>]
Certificate == [ca |-> auth[5], names |-> leaf]

TlsInit ==
    /\ auth = <<1, 1, Absent, 1, 1>> /\ leaf = {}
    /\ dynamic = FALSE /\ system = 1 /\ kiosk = 1
    /\ told = FALSE /\ loaded = Certificate
    /\ tls = NoTls /\ promised = {} /\ fresh = FALSE
    /\ torn = FALSE /\ distrusted = FALSE /\ tlsFaults = 0

-----------------------------------------------------------------------------
(* migrate_layout and validate_layout *)

MigrateLayout ==
    /\ ~dynamic /\ dynamic' = TRUE
    /\ UNCHANGED <<auth, leaf, system, kiosk, told, loaded, tls, promised, fresh, torn, distrusted, tlsFaults>>

TrustOf(files) == IF files[3] # Absent THEN files[3] ELSE files[1]

ValidFiles(files) ==
    /\ TrustOf(files) = files[4]                          \* the served copy is the root's
    /\ files[5] = files[1] /\ TrustOf(files) = files[1]   \* the chain verifies
    /\ files[2] = files[1]                                \* the key is the certificate's

Valid == dynamic /\ ValidFiles(auth)

Steps(step, next) == tls.step = step /\ tls' = [tls EXCEPT !.step = next]

-----------------------------------------------------------------------------
(* ensure_names, with the names of an address or of the domain *)

BeginEnsure(names) ==
    /\ tls = NoTls /\ Valid
    /\ tls' = [NoTls EXCEPT !.kind = "ensure", !.step = IF names \subseteq leaf THEN "notify" ELSE "sign",
                            !.names = names]
    /\ fresh' = FALSE
    /\ UNCHANGED <<tlsDisk, promised, torn, distrusted, tlsFaults>>

SignLeaf ==
    /\ Steps("sign", "notify")
    /\ leaf' = leaf \cup tls.names
    /\ UNCHANGED <<auth, dynamic, system, kiosk, told, loaded, promised, fresh, torn, distrusted, tlsFaults>>

\* The routing configuration is replaced by itself.
Notify ==
    /\ Steps("notify", "return")
    /\ told' = TRUE
    /\ UNCHANGED <<auth, leaf, dynamic, system, kiosk, loaded, promised, fresh, torn, distrusted, tlsFaults>>

TlsReturns ==
    /\ tls.step = "return" /\ tls' = NoTls
    /\ promised' = promised \cup tls.names /\ fresh' = TRUE
    /\ UNCHANGED <<tlsDisk, torn, distrusted, tlsFaults>>

-----------------------------------------------------------------------------
(* install_authority *)

\* The replacement has been checked in a directory of its own.
BeginRotation(a) ==
    /\ tls = NoTls /\ Valid
    /\ tls' = [kind |-> "rotate", step |-> "replace", file |-> 1, new |-> a, names |-> leaf \cup {"domain"},
             old |-> <<auth, leaf, system>>]
    /\ fresh' = FALSE
    /\ UNCHANGED <<tlsDisk, promised, torn, distrusted, tlsFaults>>

ReplaceAuthority ==
    /\ tls.step = "replace"
    /\ IF auth[tls.file] = Absent
       THEN auth' = [auth EXCEPT ![tls.file] = Empty] /\ UNCHANGED <<leaf, tls>>
       ELSE /\ auth' = [auth EXCEPT ![tls.file] = tls.new]
            /\ leaf' = IF Files[tls.file] = "admin.crt" THEN tls.names ELSE leaf
            /\ tls' = IF tls.file = Len(Files) THEN [tls EXCEPT !.step = "trust"] ELSE [tls EXCEPT !.file = @ + 1]
    /\ UNCHANGED <<dynamic, system, kiosk, told, loaded, promised, fresh, torn, distrusted, tlsFaults>>

PublishTrust ==
    /\ Valid /\ Steps("trust", "forget")
    /\ system' = tls.new
    /\ UNCHANGED <<auth, leaf, dynamic, kiosk, told, loaded, promised, fresh, torn, distrusted, tlsFaults>>

ForgetTrust ==
    /\ Steps("forget", "trust-kiosk")
    /\ kiosk' = Absent
    /\ UNCHANGED <<auth, leaf, dynamic, system, told, loaded, promised, fresh, torn, distrusted, tlsFaults>>

TrustInKiosk ==
    /\ Steps("trust-kiosk", "notify")
    /\ kiosk' = system
    /\ UNCHANGED <<auth, leaf, dynamic, system, told, loaded, promised, fresh, torn, distrusted, tlsFaults>>

\* Everything that was read before the first replacement is written back.
RotationFails ==
    /\ tlsFaults < MaxTlsFaults /\ tlsFaults' = tlsFaults + 1
    /\ tls.kind = "rotate" /\ tls.step \notin {"return", "undo"}
    /\ tls' = [tls EXCEPT !.step = "undo"]
    /\ UNCHANGED <<tlsDisk, promised, fresh, torn, distrusted>>

\* Mutant: a file that was not there before is left.
LeaveNewFiles ==
    /\ tls.step = "undo" /\ tls' = NoTls
    /\ auth' = [i \in 1..Len(Files) |-> IF tls.old[1][i] = Absent THEN auth[i] ELSE tls.old[1][i]]
    /\ leaf' = tls.old[2] /\ system' = tls.old[3]
    /\ \/ kiosk' = system' /\ UNCHANGED <<distrusted, tlsFaults>>
       \/ /\ tlsFaults < MaxTlsFaults /\ tlsFaults' = tlsFaults + 1
          /\ kiosk' = Absent /\ distrusted' = TRUE
    /\ UNCHANGED <<dynamic, told, loaded, promised, fresh, torn>>

\* An error of the kiosk's database is passed over.
PutBack ==
    /\ tls.step = "undo" /\ tls' = NoTls
    /\ auth' = tls.old[1] /\ leaf' = tls.old[2] /\ system' = tls.old[3]
    /\ \/ kiosk' = system' /\ UNCHANGED <<distrusted, tlsFaults>>
       \/ /\ tlsFaults < MaxTlsFaults /\ tlsFaults' = tlsFaults + 1
          /\ kiosk' = Absent /\ distrusted' = TRUE
    /\ UNCHANGED <<dynamic, told, loaded, promised, fresh, torn>>

-----------------------------------------------------------------------------
(* Kills, and Traefik *)

TlsKilled ==
    /\ tlsFaults < MaxTlsFaults /\ tlsFaults' = tlsFaults + 1
    /\ tls # NoTls /\ tls' = NoTls
    /\ torn' = (torn \/ (tls.kind = "rotate" /\ tls.file # 1))
    /\ UNCHANGED <<tlsDisk, promised, fresh, distrusted>>

Reload ==
    /\ told /\ told' = FALSE
    /\ loaded' = Certificate
    /\ UNCHANGED <<auth, leaf, dynamic, system, kiosk, tls, promised, fresh, torn, distrusted, tlsFaults>>

TlsSteps == \/ SignLeaf \/ Notify \/ TlsReturns
            \/ ReplaceAuthority \/ PublishTrust \/ ForgetTrust \/ TrustInKiosk \/ PutBack

TlsNext == \/ MigrateLayout \/ TlsSteps \/ RotationFails \/ TlsKilled \/ Reload
           \/ \E n \in TlsNames : BeginEnsure({n})
           \/ \E a \in Authorities : BeginRotation(a)

-----------------------------------------------------------------------------
(* What is promised *)

\* Unless a rotation was killed, the files are of one authority whenever nothing
\* runs, every name that was ever granted is still in the certificate, and the
\* root it verifies against is the one that the host and the kiosk trust.
TlsUsable ==
    (dynamic /\ tls = NoTls /\ ~torn) =>
        /\ Valid
        /\ promised \subseteq leaf
        /\ system = TrustOf(auth)
        /\ distrusted \/ kiosk = system

\* What an operation that succeeded leaves is what Traefik comes to use, also when
\* the operation before was killed between the certificate and the notification.
CertificateServed == fresh ~> (loaded = Certificate \/ ~fresh)
=============================================================================
