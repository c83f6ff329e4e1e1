---------------------------------- MODULE Dial ----------------------------------
(***************************************************************************)
(* The downloads of pages, one after the other (fetch.go): the check of    *)
(* the URL, and the HTTP client, which resolves the name of the server     *)
(* anew for every connection, keeps idle ones and follows redirects.  DNS  *)
(* may give another answer each time it is asked.  Of an IPv4 address the  *)
(* first two bytes are kept: no range of the block list needs more.        *)
(***************************************************************************)
EXTENDS Integers, FiniteSets

CONSTANTS
  V4,            \* IPv4 addresses, pairs of bytes
  Inner,         \* those of them that are embedded in others
  Names,         \* names of servers
  MaxRedirects   \* maxRedirects

ASSUME DialParameters == V4 \cup Inner \subseteq (0 .. 255) \X (0 .. 255) /\ "literal" \notin Names

VARIABLES
  at,     \* how far the download has come
  url,    \* the request under way: its scheme is http or https, its server
  hops,   \* redirects so far
  conn,   \* the connection that the request is sent over
  idle    \* the idle connection that the client has to each name

dialVars == <<at, url, hops, conn, idle>>

(* An address: IPv4, IPv6 in which one is embedded, or a class of IPv6.    *)
(* Teredo embeds a server and, every bit inverted, a client.  nat64local   *)
(* is the local-use prefix 64:ff9b:1::/48 with bytes 6 to 11 zero; checkIP *)
(* decodes no other address of that prefix: nat64wide.                     *)
Embedded == {"mapped", "compatible", "nat64", "nat64local", "6to4", "isatap", "teredo"}

Undecoded == {"nat64wide"}

Classes == {"loopback", "linklocal", "unspecified", "multicast", "private", "global"}

NoV4 == <<0, 0>>

Inverted(b) == <<255 - b[1], 255 - b[2]>>

Class(c) == [form |-> c, v4 |-> NoV4, client |-> NoV4]

Addresses ==
  [form : {"v4"}, v4 : V4, client : {NoV4}]
    \cup [form : (Embedded \ {"teredo"}) \cup Undecoded, v4 : Inner, client : {NoV4}]
    \cup [form : {"teredo"}, v4 : Inner, client : {Inverted(b) : b \in Inner}]
    \cup {Class(c) : c \in Classes}

NoConn == Class("none")

-----------------------------------------------------------------------------
(* checkIPv4 *)
BlockedV4(b) ==
  \/ b[1] \in {0, 127, 10}
  \/ b = <<169, 254>> \/ b = <<192, 168>>
  \/ b[1] \in 224 .. 239 \/ b[1] >= 240
  \/ b[1] = 172 /\ b[2] \in 16 .. 31
  \/ b[1] = 100 /\ b[2] \in 64 .. 127
  \/ b[1] = 198 /\ b[2] \in 18 .. 19

(* checkIP: an embedded address is checked like any other; :: and ::1 are  *)
(* no embedded addresses but classes of their own.  A nat64wide address is *)
(* let through whatever it embeds.                                         *)
Blocked(a) ==
  \/ a.form \in Classes \ {"global"}
  \/ a.form \in ({"v4"} \cup Embedded) /\ BlockedV4(a.v4)
  \/ a.form = "teredo" /\ BlockedV4(Inverted(a.client))

Server == [name : Names, addr : {NoConn}] \cup [name : {"literal"}, addr : Addresses]

Literal == url.server.name = "literal"

(* What a lookup may give: any addresses for a name, a literal itself.     *)
(* One that is allowed and one that is not are enough to tell apart.       *)
Lookups ==
  IF Literal THEN {{url.server.addr}}
  ELSE {{a} : a \in Addresses}
         \cup {{a, b} : a \in {x \in Addresses : Blocked(x)}, b \in {Class("global")}}

-----------------------------------------------------------------------------
Request(web, server) == url' = [web |-> web, server |-> server]

DialInit ==
  /\ url \in [web : BOOLEAN, server : Server]
  /\ at = "new" /\ hops = 0 /\ conn = NoConn /\ idle = [n \in Names |-> NoConn]

DialFails == at' = "ended" /\ conn' = NoConn /\ UNCHANGED <<url, hops, idle>>

(* validateURL: one address that is allowed is enough.                     *)
Valid(found) == url.web /\ \E a \in found : ~Blocked(a)

Validate ==
  /\ at = "new"
  /\ \/ /\ \E found \in Lookups : Valid(found)
        /\ at' = "request" /\ UNCHANGED <<url, hops, conn, idle>>
     \/ (\E found \in Lookups : ~Valid(found)) /\ DialFails

DialableAll(found) == found

(* DialContext: the addresses that are not allowed are passed over.        *)
Dialable(found) == {a \in found : ~Blocked(a)}

Idle == ~Literal /\ idle[url.server.name] # NoConn

(* Of the others any may be the first that takes the connection.           *)
Connect ==
  /\ at = "request" /\ ~Idle
  /\ \E found \in Lookups : \E a \in Dialable(found) : conn' = a
  /\ at' = "sent" /\ UNCHANGED <<url, hops, idle>>

(* A connection that an earlier request has left, to the same name.        *)
Reuse ==
  /\ at = "request" /\ Idle /\ conn' = idle[url.server.name]
  /\ at' = "sent" /\ UNCHANGED <<url, hops, idle>>

(* No address is allowed, none answers, or the time is over.               *)
DialBreaks == at \in {"request", "sent"} /\ DialFails

(* The connection stays open for the next request to the name.             *)
Returned == idle' = IF Literal THEN idle ELSE [idle EXCEPT ![url.server.name] = conn]

(* CheckRedirect counts the requests so far and looks at the scheme; the   *)
(* server of the redirect is checked when it is dialled.                   *)
Redirected ==
  /\ at = "sent" /\ hops + 1 < MaxRedirects /\ hops' = hops + 1
  /\ \E server \in Server : Request(TRUE, server)
  /\ at' = "request" /\ conn' = NoConn /\ Returned

RedirectRefused ==
  /\ at = "sent" /\ at' = "ended" /\ conn' = NoConn /\ Returned
  /\ UNCHANGED <<url, hops>>

(* The page is read, to its end or to the limit. *)
PageRead ==
  /\ at = "sent" /\ at' = "ended" /\ conn' = NoConn /\ UNCHANGED <<url, hops>>
  /\ Returned \/ UNCHANGED idle

IdleExpires ==
  /\ \E n \in Names : idle[n] # NoConn /\ idle' = [idle EXCEPT ![n] = NoConn]
  /\ UNCHANGED <<at, url, hops, conn>>

NextDownload ==
  /\ at = "ended" /\ at' = "new" /\ hops' = 0 /\ conn' = NoConn
  /\ \E web \in BOOLEAN : \E server \in Server : Request(web, server)
  /\ UNCHANGED idle

DialNext ==
  \/ Validate \/ Connect \/ Reuse \/ DialBreaks \/ Redirected \/ RedirectRefused \/ PageRead
  \/ IdleExpires \/ NextDownload

DialSpec == DialInit /\ [][DialNext]_dialVars

-----------------------------------------------------------------------------
(* The ranges that the comment of checkIP lists (fetch.go:189): the first  *)
(* two bytes and the length of the prefix.                                 *)
Ranges ==
  {<<0, 0, 8>>, <<127, 0, 8>>, <<169, 254, 16>>, <<224, 0, 4>>, <<240, 0, 4>>, <<10, 0, 8>>,
   <<172, 16, 12>>, <<192, 168, 16>>, <<100, 64, 10>>, <<198, 18, 15>>}

(* How many pairs of bytes have a prefix of this length.                   *)
Block(len) ==
  CASE len = 4 -> 4096 [] len = 8 -> 256 [] len = 10 -> 64 [] len = 12 -> 16 [] len = 15 -> 2 [] len = 16 -> 1

InRange(b, r) ==
  LET from == 256 * r[1] + r[2] IN 256 * b[1] + b[2] \in from .. from + Block(r[3]) - 1

(* The IPv4 hosts that packets to an address are for. *)
Reaches(a) ==
  CASE a.form = "teredo"                  -> {a.v4, Inverted(a.client)}
    [] a.form \in Classes                 -> {}
    [] OTHER                              -> {a.v4}

(* Whatever DNS answers after the check of the URL, wherever a redirect    *)
(* points and whichever connection is reused, the client is connected to   *)
(* no server in one of these ranges, directly or through IPv6.  The        *)
(* comments speak of 64:ff9b:1::/48 (fetch.go:244) and of every embedded   *)
(* IPv4 address (fetch.go:199); the addresses of that prefix that the code *)
(* does not decode (fetch.go:246) are the one exception, which is claimed  *)
(* for no other form.                                                      *)
DialsAreChecked ==
  \A a \in ({conn} \cup {idle[n] : n \in Names}) \ {NoConn} :
    \/ a.form \in Undecoded
    \/ /\ a.form \notin Classes \ {"global"}
       /\ \A b \in Reaches(a) : \A r \in Ranges : ~InRange(b, r)
=============================================================================
