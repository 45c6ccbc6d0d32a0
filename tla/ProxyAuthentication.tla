-------------------------- MODULE ProxyAuthentication --------------------------
(***************************************************************************)
(* The credentials of an HTTP handshake: EHttpSmartProxyHandler selects an *)
(* authentication handler when the proxy demands one, and hands it every   *)
(* demand (407); after each, doHandshake() writes the next request.  How   *)
(* responses are read is ProxyResponse, how directives are, is             *)
(* DirectiveParsing.                                                       *)
(***************************************************************************)
EXTENDS Naturals, Sequences, FiniteSets, SequencesExt

CONSTANTS
  Algorithms,   \* names of algorithms in a digest challenge
  Qops,         \* names of qop options in it
  MaxOrder, MaxValues, MaxOptions \* bounds: methods the user orders, values of a demand, options

ASSUME AuthenticationAssumption == {MaxOrder, MaxValues, MaxOptions} \subseteq Nat

(* The values of the header Proxy-Authenticate. *)
UpTo(n, S) == UNION {[1..k -> S] : k \in 0..n}
Challenges == [scheme: {"basic", "ntlm"}] \cup [scheme: {"digest"}, algorithm: Algorithms, qop: UpTo(MaxOptions, Qops)]

VARIABLES
  preferedOrder, credentials, \* of the request: has it a user and a password?
  authHandler,  \* "null" or its method
  step, directives, \* of the authHandler; a digest handler's challenge
  reconnectionNeeded,
  requestsSent, \* what was written: what they authenticate with
  demands, challenged, \* number of the proxy's demands, the values of the first
  result        \* "going", "failed", "granted", "reconnect"

authenticationVars ==
  <<preferedOrder, credentials, authHandler, step, directives, reconnectionNeeded, requestsSent, demands, challenged, result>>

NoDirectives == [scheme |-> "null"]

AuthenticationInit ==
  /\ preferedOrder \in UpTo(MaxOrder, {"none", "basic", "digest", "ntlm"}) /\ credentials \in BOOLEAN
  /\ authHandler = "null" /\ step = 0 /\ directives = NoDirectives
  /\ reconnectionNeeded = FALSE /\ requestsSent = <<>> /\ demands = 0 /\ challenged = <<>> /\ result = "going"

(* Without an authHandler the first request is written.                    *)
FirstRequest ==
  /\ requestsSent = <<>> /\ result = "going"
  /\ requestsSent' = <<"none">>
  /\ UNCHANGED <<preferedOrder, credentials, authHandler, step, directives, reconnectionNeeded, demands, challenged, result>>

----------------------------------------------------------------------------
(* autoSelectAuthHandler() *)

(* The handlers of basic and digest need a user and a password; there is   *)
(* none for NTLM.                                                          *)
Found(method, values) ==
  \/ method = "none"
  \/ method \in {"basic", "digest"} /\ credentials /\ \E v \in ToSet(values) : v.scheme = method

(* The first method of the order that the proxy knows. *)
Selected(values) ==
  LET usable == {i \in DOMAIN preferedOrder : Found(preferedOrder[i], values)}
  IN  IF values = <<>> THEN "none"
      ELSE IF usable = {} THEN "null" ELSE preferedOrder[Min(usable)]

(* The search turns the values it looks at to lower case, in the response: *)
(* all of them for a method that is not there, else those up to the first  *)
(* that is.                                                                *)
LookedAt(values) ==
  LET methods == {i \in DOMAIN preferedOrder :
                    \A k \in 1..i : preferedOrder[k] # "none"
                                    /\ (k < i => ~Found(preferedOrder[k], values))}
      upTo(i) == {n \in DOMAIN values : \A k \in 1..(n - 1) :
                    values[k].scheme # preferedOrder[i] \/ (preferedOrder[i] # "ntlm" /\ ~credentials)}
  IN  UNION {upTo(i) : i \in methods}

----------------------------------------------------------------------------
(* handleResponse() and doHandshake() of the authHandler, that of digest.  *)

(* The value is recognised by its first letters, "Digest".                 *)
DigestValues(values) == {n \in DOMAIN values : values[n].scheme = "digest"}

(* The qop: "auth", or else the last one that is supported.                *)
QopOf(options) ==
  LET supported == {i \in DOMAIN options : options[i] \in {"auth", "auth-int"}}
      auths == {i \in supported : options[i] = "auth"}
  IN  IF supported = {} THEN "null" ELSE IF auths # {} THEN "auth" ELSE options[Max(supported)]

(* Computing the response needs a cnonce, which only a qop brings.         *)
DigestResponse(d) ==
  IF d.algorithm \notin {"md5", "md5-sess"} \/ QopOf(d.qop) = "null" THEN "null" ELSE "digest"

(* Fault: the step is not looked at. *)
AnswerAgain(handler, stepBefore, d) ==
  IF handler = "basic" THEN "basic"
  ELSE IF handler = "digest" /\ d # NoDirectives THEN DigestResponse(d)
  ELSE "null"

(* What the next request authenticates with; "null": an exception.         *)
Answer(handler, stepBefore, d) ==
  IF stepBefore > 0 THEN "null"
  ELSE IF handler = "basic" THEN "basic"
  ELSE IF handler = "digest" /\ d # NoDirectives THEN DigestResponse(d)
  ELSE "null"

----------------------------------------------------------------------------
(* A response of the proxy. *)

Asked == requestsSent # <<>> /\ result = "going"

(* 200 and 30x *)
HandshakeGranted ==
  /\ Asked /\ result' = "granted"
  /\ UNCHANGED <<preferedOrder, credentials, authHandler, step, directives, reconnectionNeeded, requestsSent, demands, challenged>>

UnexpectedCode(closes) ==
  /\ Asked /\ result' = "failed"
  /\ reconnectionNeeded' = (reconnectionNeeded \/ closes)
  /\ UNCHANGED <<preferedOrder, credentials, authHandler, step, directives, requestsSent, demands, challenged>>

(* 407.  A handler is selected once; a digest handler looks for a value it *)
(* knows among those that are as they were sent.  When the proxy is to     *)
(* close the connection, the request goes to another one.                  *)
Demanded(values, closes) ==
  /\ Asked /\ demands' = demands + 1 /\ challenged' = IF demands = 0 THEN values ELSE challenged
  /\ reconnectionNeeded' = (reconnectionNeeded \/ closes)
  /\ authHandler' = IF authHandler = "null" THEN Selected(values) ELSE authHandler
  /\ LET fresh == IF authHandler = "null" THEN DigestValues(values) \ LookedAt(values) ELSE DigestValues(values)
         d == IF authHandler' = "digest" /\ step = 0 /\ fresh # {} THEN values[Min(fresh)] ELSE directives
         answer == Answer(authHandler', step, d)
     IN  /\ directives' = d
         /\ step' = (IF answer = "null" THEN step ELSE step + 1)
         /\ result' = IF answer = "null" THEN "failed" ELSE IF reconnectionNeeded' THEN "reconnect" ELSE "going"
         /\ requestsSent' = IF result' = "going" THEN Append(requestsSent, answer) ELSE requestsSent
  /\ UNCHANGED <<preferedOrder, credentials>>

AuthenticationNext ==
  \/ FirstRequest \/ HandshakeGranted
  \/ \E closes \in BOOLEAN :
       \/ UnexpectedCode(closes)
       \/ \E values \in UpTo(MaxValues, Challenges) : Demanded(values, closes)

----------------------------------------------------------------------------
(* Credentials are sent once, after a proxy has demanded them, in the form *)
(* of the first method of the user's order that the proxy demands; digest  *)
(* with a qop and an algorithm that a value of that demand names; and on   *)
(* no connection that the proxy was to close.  A proxy that goes on        *)
(* demanding is answered by a failure.  (Digest needs a second value: the  *)
(* first one is in lower case.)                                            *)
AuthenticationSound ==
  /\ Len(requestsSent) <= 2 /\ (demands = 2 => result = "failed")
  /\ requestsSent # <<>> => requestsSent[1] = "none"
  /\ Len(requestsSent) = 2 =>
       LET sent == requestsSent[2]
           matching == {v \in ToSet(challenged) : v.scheme = sent}
       IN  /\ matching # {} /\ credentials
           /\ \E i \in DOMAIN preferedOrder :
                /\ preferedOrder[i] = sent
                /\ \A k \in 1..(i - 1) :
                     \/ preferedOrder[k] = "ntlm"
                     \/ preferedOrder[k] # "none" /\ \A v \in ToSet(challenged) : v.scheme # preferedOrder[k]
           /\ sent = "digest" => \E v \in matching : v.algorithm \in {"md5", "md5-sess"} /\ QopOf(v.qop) \in ToSet(v.qop)
           /\ result = "going" => ~reconnectionNeeded
================================================================================
