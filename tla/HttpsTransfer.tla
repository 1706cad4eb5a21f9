---------------------------- MODULE HttpsTransfer ----------------------------
(***************************************************************************)
(* NativeHttpsTransport::transfer (trusted_download.rs): the one way bytes  *)
(* reach an installer from the network.  Redirects are followed by hand,    *)
(* one libcurl transfer per hop, with one budget of header bytes for all of *)
(* them; every byte of a body goes straight into the caller's target, a     *)
(* partial file it will resume, so it must come from the final answer only. *)
(*                                                                          *)
(* libcurl and the server are the environment: it delivers blocks of header *)
(* lines and chunks of body in the order HTTP allows, any status, location  *)
(* and damage, and may end at any point.  A target counts its chunks, each  *)
(* known by the hop it came from.                                           *)
(***************************************************************************)
EXTENDS Naturals, Sequences

CONSTANTS
  Libraries,      \* what the linked libcurl is: version, ssl, https
  Urls,           \* urls that are asked for: [scheme, safe, host]
  Locations,      \* Location fields: [form, to], "none" among the forms
  Statuses,       \* final status codes of a server
  Damages,        \* what may be wrong with a header block, "none" included
  MaxRedirects,   \* 5 in the code
  HeaderBudget,   \* MAX_HEADER_BYTES, in blocks
  MaxBlocks,      \* header blocks of one hop
  MaxBody,        \* body chunks of one hop
  Maximum         \* the caller's limit, in chunks

VARIABLES
  lib,      \* the library, fixed
  hop,      \* [at, url, n, budget]: the loop of transfer; spent on earlier hops
  head,     \* HeaderState: [raw, max, parsed, error], and where the answer is
  target,   \* the hops whose chunks were written, in order
  total,    \* body_bytes of this hop
  asked,    \* urls that were contacted
  result    \* "none", "error", or the status returned

xvars == <<lib, hop, head, target, total, asked, result>>

NotParsed == [status |-> 0, location |-> [form |-> "none"]]

\* HeaderState::new; ended when the answer's own headers are through, body the
\* chunks that came, bad the body_error of perform_once.
NewHead(budget) ==
  [raw |-> 0, max |-> budget, parsed |-> NotParsed, error |-> FALSE,
   ended |-> FALSE, body |-> 0, bad |-> FALSE]

\* require_absolute_https: scheme, authority and alphabet of an absolute URL.
AbsoluteHttps(url) == url.scheme = "https" /\ url.safe /\ url.host # 0

\* require_https_capable_libcurl, checked once per process.
Capable == lib.version >= 728 /\ lib.ssl /\ lib.https

\* is_redirect_status
IsRedirect(status) == status \in {301, 302, 303, 307, 308}

\* HeaderState::is_followable_redirect: a redirect that says where to.
Followable(h) == IsRedirect(h.parsed.status) /\ h.parsed.location.form \notin {"none", "empty"}

Refused == [scheme |-> "refused", safe |-> FALSE, host |-> 0]

\* resolve_https_redirect, Refused when it is an error.  Only an absolute location
\* or "//" changes the host; a backslash passes here and is refused when the
\* next hop begins.
Resolve(url, loc) ==
  CASE loc.form = "control" -> Refused
    [] loc.form = "absolute" -> IF AbsoluteHttps(loc.to) THEN loc.to ELSE Refused
    [] loc.form = "scheme_relative" ->
         IF AbsoluteHttps([loc.to EXCEPT !.scheme = "https"])
         THEN [loc.to EXCEPT !.scheme = "https"] ELSE Refused
    [] loc.form = "relative" -> url
    [] loc.form = "backslash" -> [url EXCEPT !.safe = FALSE]

HInit ==
  /\ lib \in Libraries
  /\ \E u \in Urls : hop = [at |-> "begin", url |-> u, n |-> 0, budget |-> HeaderBudget, spent |-> 0]
  /\ head = NewHead(HeaderBudget)
  /\ target = <<>> /\ total = 0 /\ asked = {} /\ result = "none"

Fail == result' = "error" /\ hop' = [hop EXCEPT !.at = "over"]

\* perform_once begins: the URL is checked again, then the library.
Begin ==
  /\ hop.at = "begin"
  /\ IF AbsoluteHttps(hop.url) /\ Capable
     THEN /\ hop' = [hop EXCEPT !.at = "transfer"]
          /\ asked' = asked \cup {hop.url}
          /\ head' = NewHead(hop.budget) /\ total' = 0
          /\ UNCHANGED result
     ELSE Fail /\ UNCHANGED <<asked, head, total>>
  /\ UNCHANGED <<lib, target>>

\* parse_final_headers reads the last block that begins with a status line, but
\* all of them as text: a damaged trailer is an error only when it is not UTF-8.
Rejected(damage, trailer) ==
  damage = "not_utf8"
  \/ (damage \in {"duplicate", "folded", "malformed", "bad_status"} /\ ~trailer)

\* HeaderState::receive: a block of header lines arrives, the blank line with it,
\* of an interim answer, of the answer, or a trailer; it is counted, then parsed.
HeaderBlock ==
  /\ hop.at = "transfer" /\ ~head.error /\ head.raw < MaxBlocks
  /\ \E damage \in Damages :
       \E parsed \in (IF head.ended THEN {head.parsed}
                      ELSE [status : {103} \cup Statuses, location : Locations]) :
         LET over == head.raw + 1 > head.max
             bad == Rejected(damage, head.ended)
         IN  head' = [head EXCEPT !.raw = IF over THEN @ ELSE @ + 1,
                                  !.error = over \/ bad,
                                  !.parsed = IF over \/ bad THEN @ ELSE parsed,
                                  !.ended = @ \/ parsed.status # 103]
  /\ UNCHANGED <<lib, hop, target, total, asked, result>>

\* Mutant: the body of a redirect is written like any other.
Bug_Writes(h) == ~h.error /\ h.parsed # NotParsed
\* receive_body_chunk: a body before headers is an error, that of a redirect
\* is consumed and dropped, all else is written.
Writes(h) == ~h.error /\ h.parsed # NotParsed /\ ~Followable(h)

\* receive_body_chunk and write_response_chunk: bounded before it is written;
\* the target's own write may fail.
BodyChunk ==
  /\ hop.at = "transfer" /\ ~head.error /\ ~head.bad /\ head.body < MaxBody
  /\ head.ended \/ head.raw = 0                \* libcurl: no body after 1xx
  /\ \/ /\ Writes(head) /\ total + 1 <= Maximum
        /\ target' = Append(target, hop.n) /\ total' = total + 1
        /\ head' = [head EXCEPT !.body = @ + 1]
     \/ /\ Writes(head)                          \* over the limit, or refused
        /\ head' = [head EXCEPT !.bad = TRUE]
        /\ UNCHANGED <<target, total>>
     \/ /\ ~Writes(head)
        /\ head' = IF head.parsed = NotParsed THEN [head EXCEPT !.bad = TRUE]
                   ELSE [head EXCEPT !.body = @ + 1]
        /\ UNCHANGED <<target, total>>
  /\ UNCHANGED <<lib, hop, asked, result>>

\* Mutant: the budget of a hop is a new one.
Bug_NextHop(to) ==
  [at |-> "begin", url |-> to, n |-> hop.n + 1, budget |-> HeaderBudget, spent |-> hop.spent + head.raw]
\* The next hop of transfer's loop, with what is left of the header budget.
NextHop(to) ==
  [at |-> "begin", url |-> to, n |-> hop.n + 1, budget |-> hop.budget - head.raw,
   spent |-> hop.spent + head.raw]

\* redirect_destination's errors: one redirect too many, or to no https place.
RedirectRefused(loc) == hop.n >= MaxRedirects \/ Resolve(hop.url, loc) = Refused

\* perform returns: errors of the callbacks first, then of libcurl, then an
\* answer without headers; redirect_destination ends the loop or moves it on.
Performed ==
  /\ hop.at = "transfer"
  /\ \E lost \in BOOLEAN :
       IF head.error \/ head.bad \/ lost \/ head.parsed = NotParsed THEN Fail
       ELSE LET loc == head.parsed.location
            IN  \/ /\ ~Followable(head)
                   /\ result' = "done" /\ hop' = [hop EXCEPT !.at = "over"]
                \/ /\ Followable(head) /\ RedirectRefused(loc)
                   /\ Fail
                \/ /\ Followable(head) /\ ~RedirectRefused(loc)
                   /\ hop' = NextHop(Resolve(hop.url, loc))
                   /\ UNCHANGED result
  /\ UNCHANGED <<lib, head, target, total, asked>>

HNext == Begin \/ HeaderBlock \/ BodyChunk \/ Performed

HSpec == HInit /\ [][HNext]_xvars

----------------------------------------------------------------------------
(* Properties.                                                             *)

\* What reaches the caller's file is the answer and nothing else: at every
\* moment all of it came from the current hop, which is not a redirect, no more
\* than the caller allowed and as much as is reported; every server contacted
\* was named by an https URL; and all hops together stay in one header budget.
OnlyTheAnswerIsWritten ==
  /\ \A i \in DOMAIN target : target[i] = hop.n
  /\ Len(target) <= Maximum
  /\ result = "done" => Len(target) = total
  /\ \A u \in asked : u.scheme = "https" /\ u.safe
  /\ hop.n <= MaxRedirects
  /\ hop.at = "transfer" => hop.spent + head.raw <= HeaderBudget
=============================================================================
