--------------------------- MODULE CallbackAllowlist ---------------------------
(***************************************************************************)
(* Which URL may receive an authorization code (lib/callback-allowlist.ts).*)
(* A URL is what the text of it parses to: whether it is text at all, an   *)
(* absolute URL or not, its scheme, host, port and path, how many slashes  *)
(* trail the path, and the query and fragment. spelling stands for what    *)
(* the comparison does not see: the case of scheme and host and blanks     *)
(* around. The functions are pure; Authorization calls them.               *)
(***************************************************************************)
EXTENDS Naturals

CONSTANTS
  LoopbackHost, \* the hosts isLoopbackHost knows: localhost, 127.0.0.0/8, ::1, 0.0.0.0
  FormHost,     \* the hosts the form and the script know: localhost, 127.0.0.1, ::1
  Unregistered  \* the answer of a check that found no callback

ASSUME HostAssumption == FormHost \subseteq LoopbackHost

(* "blank" is missing or empty, "relative" does not parse, "foreign" has a *)
(* scheme that is not http or https.                                       *)
isUri(u) ==
  /\ DOMAIN u = {"text", "long", "scheme", "host", "port", "path", "slashes", "query", "fragment", "spelling"}
  /\ u.text \in {"blank", "relative", "foreign", "web"}
  /\ u.scheme \in {"http", "https"}
  /\ u.query \in {"none", "empty", "text"} /\ u.fragment \in {"none", "empty", "text"}
  /\ u.slashes \in Nat /\ u.long \in BOOLEAN

Mode == {"development", "production"}

isLoopbackHost(host) == host \in LoopbackHost

defaultPort(scheme) == IF scheme = "https" THEN "443" ELSE "80"

(* The canonical form two URLs are compared in. It keeps neither query nor *)
(* fragment, no trailing slashes and no default port.                      *)
canonicalizeCallback(u) ==
  [scheme |-> u.scheme, host |-> u.host, path |-> u.path,
   port |-> IF u.port = defaultPort(u.scheme) THEN "" ELSE u.port]

schemeRejection(u) == IF u.text = "foreign" THEN "UNSUPPORTED_SCHEME" ELSE "MALFORMED_URI"

checkTransport(u, mode) ==
  CASE isLoopbackHost(u.host) /\ mode = "production"    -> "LOCALHOST_NOT_ALLOWED"
    [] ~isLoopbackHost(u.host) /\ u.scheme # "https"    -> "INSECURE_SCHEME"
    [] OTHER                                            -> "ok"

(* The checks that the two validations share, in their order.              *)
checkUri(u) ==
  CASE u.text = "blank" -> "MISSING_URI"
    [] u.text # "blank" /\ u.long -> "CALLBACK_TOO_LONG"
    [] u.text \in {"relative", "foreign"} /\ ~u.long -> schemeRejection(u)
    [] OTHER -> "ok"

(* The registered callbacks a URL is another spelling of.                  *)
matching(callbacks, u) ==
  {e \in callbacks : e.text = "web" /\ canonicalizeCallback(e) = canonicalizeCallback(u)}

rejected(reason) == [reason |-> reason, registered |-> Unregistered]

(* callbacks come out of the table in ascending order of their text, and   *)
(* the first that matches is the answer: a choice that depends on nothing  *)
(* but which ones match.                                                   *)
checkCallback(status, callbacks, u, mode) ==
  CASE status = "revoked" -> rejected("APPLICATION_REVOKED")
    [] status # "revoked" /\ checkUri(u) # "ok" -> rejected(checkUri(u))
    [] status # "revoked" /\ checkUri(u) = "ok" /\ checkTransport(u, mode) # "ok" ->
         rejected(checkTransport(u, mode))
    [] OTHER ->
         IF callbacks = {} THEN rejected("NO_CALLBACK_REGISTERED")
         ELSE IF matching(callbacks, u) = {} THEN rejected("CALLBACK_NOT_REGISTERED")
         ELSE [reason |-> "ok", registered |-> CHOOSE e \in matching(callbacks, u) : TRUE]

(* Whether an administrator may register a URL. An empty query or fragment *)
(* is none to the parser.                                                  *)
validateRegistrableCallback(u, mode) ==
  CASE checkUri(u) # "ok" -> checkUri(u)
    [] checkUri(u) = "ok" /\ "text" \in {u.query, u.fragment} -> "CALLBACK_HAS_PARAMETERS"
    [] OTHER -> checkTransport(u, mode)

(* A list is refused whole if one of its URLs is.                          *)
validateCallbackList(urls, mode) == {u \in urls : validateRegistrableCallback(u, mode) # "ok"}

(* The registration form and the provisioning script check a callback on   *)
(* their own first, the script because it writes to the table directly.    *)
(* Both know fewer loopback hosts than the server and no mode, and look at *)
(* no length.                                                              *)
describeCallback(u) ==
  CASE u.text \in {"blank", "relative"} -> "Needs to be an absolute URL"
    [] u.text = "foreign" -> "Must be http or https"
    [] u.text = "web" /\ "text" \in {u.query, u.fragment} -> "No query string or fragment"
    [] u.text = "web" /\ "text" \notin {u.query, u.fragment} ->
         IF u.host \notin FormHost /\ u.scheme # "https" THEN "https is required outside localhost"
         ELSE "ok"

provisionAccepts(callbacks) == \A u \in callbacks : describeCallback(u) = "ok"

callbacksValid(callbacks) == callbacks # {} /\ \A u \in callbacks : describeCallback(u) = "ok"

(* The one place a redirect is built: the registered callback with its     *)
(* query and fragment replaced by the protocol's own parameters.           *)
buildCallbackRedirect(registered, params) ==
  [target |-> [registered EXCEPT !.query = "none", !.fragment = "none"], params |-> params]
=============================================================================
