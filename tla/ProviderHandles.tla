--------------------------- MODULE ProviderHandles ---------------------------
(***************************************************************************)
(* The handles a provider session gives out through the C ABI, and the Rust  *)
(* wrappers that own them (provider.rs): tensors, the three kinds of cache   *)
(* with their decode tickets, one-position target transactions and           *)
(* target-state branches.  The provider is external: a call is refused,      *)
(* succeeds, or takes effect and answers with a report the wrapper rejects,  *)
(* which may or may not name the new handle.  The client is either one of    *)
(* the canaries, which run a fixed script, or a free user of the tensors and *)
(* one kind of cache or the target: the kinds share no state.                *)
(***************************************************************************)
EXTENDS Naturals, Sequences

CONSTANTS
  PositionLayers,    \* layers of a target position, 93 in the code
  MaxTensors,        \* bound: tensors owned at a time
  MaxVersion,        \* bound: commits to one cache
  MaxHandleFaults    \* bound: calls that go wrong

ASSUME HandlesAssumption ==
  PositionLayers \in Nat /\ MaxTensors \in Nat /\ MaxVersion \in Nat /\ MaxHandleFaults \in Nat

VARIABLES
  h,       \* per kind of handle: live in the provider, owned by a wrapper, stranded
  ver,     \* per cache: the provider's version, the wrapper's, poisoned
  posn,    \* the TargetPosition wrapper: next layer, waiting for experts
  todo,    \* what the client still does: a script, or "free"
  badCalls \* faults so far

pvars == <<h, ver, posn, todo, badCalls>>

Caches == {"cache", "kda", "mla"}
TicketOf == [cache |-> "layer", kda |-> "kda_ticket", mla |-> "mla_ticket"]
Kinds == Caches \cup {TicketOf[c] : c \in Caches} \cup {"tensor", "position", "branch"}

\* The canaries the command line runs before a device is trusted.
SplitLayerCanary == <<<<"upload", "tensor">>, <<"create", "cache">>, <<"upload", "tensor">>,
                      <<"prepare", "cache">>, <<"finish", "cache">>>>
KdaCanary == <<<<"upload", "tensor">>, <<"create", "kda">>, <<"decode", "kda">>,
               <<"cancel", "kda">>, <<"decode", "kda">>, <<"commit", "kda">>>>
MlaCanary == <<<<"upload", "tensor">>, <<"create", "mla">>, <<"decode", "mla">>,
               <<"cancel", "mla">>, <<"decode", "mla">>, <<"commit", "mla">>>>

PInit ==
  /\ h = [k \in Kinds |-> [live |-> 0, owned |-> 0, stranded |-> 0]]
  /\ ver = [c \in Caches |-> [prov |-> 0, wrap |-> 0, poisoned |-> FALSE]]
  /\ posn = [next |-> 0, waiting |-> FALSE]
  /\ todo \in {SplitLayerCanary, KdaCanary, MlaCanary} \cup {<<<<"free", k>>>> : k \in Caches \cup {"target"}}
  /\ badCalls = 0

Replies == {"ok", "refused", "garbled"}
Releases == {"ok", "refused"}

\* A script goes on after a success and unwinds after an error.
FreeUser == todo # <<>> /\ Head(todo)[1] = "free"
FreeTarget == todo = <<<<"free", "target">>>>
Unwinding == todo \in {<<>>, <<<<"unwind", "">>>>}
Turn(op, k, ok) ==
  /\ todo # <<>> /\ (Head(todo) = <<op, k>> \/ (FreeUser /\ k \in {"tensor", Head(todo)[2]}))
  /\ todo' = IF FreeUser THEN todo ELSE IF ok THEN Tail(todo) ELSE <<<<"unwind", "">>>>
Count(os) ==
  LET bad == Len(SelectSeq(os, LAMBDA o : o # "ok"))
  IN  badCalls + bad <= MaxHandleFaults /\ badCalls' = badCalls + bad

Has(k) == h[k].owned > 0

---------------------------------------------------------------------------
(* Birth and death of a handle.                                             *)

\* release_resource, whose result the drops ignore: refused, the handle lives
\* on with no owner.
Freed(e, r) == [e EXCEPT !.owned = @ - 1, !.live = IF r = "ok" THEN @ - 1 ELSE @,
                         !.stranded = IF r = "ok" THEN @ ELSE @ + 1]

\* A call that makes a handle; a rejected report that names it releases it.
Born(e, o, named, r) ==
  IF o = "refused" \/ (o = "garbled" /\ named /\ r = "ok") THEN e
  ELSE IF o = "ok" THEN [e EXCEPT !.live = @ + 1, !.owned = @ + 1]
  ELSE [e EXCEPT !.live = @ + 1, !.stranded = @ + 1]

\* The release is attempted, and named matters, only after a bad report.
Sensible(o, named, rs) == (o # "garbled" => named) /\ ((o # "garbled" \/ ~named) => \A i \in DOMAIN rs : rs[i] = "ok")

\* upload_f32
Upload(o, named, r) ==
  /\ h["tensor"].owned < MaxTensors
  /\ Sensible(o, named, <<r>>) /\ Count(<<o, r>>) /\ Turn("upload", "tensor", o = "ok")
  /\ h' = [h EXCEPT !["tensor"] = Born(@, o, named, r)]
  /\ UNCHANGED <<ver, posn>>

\* create_cache_f32, create_kda_cache, create_mla_cache: version 0.
CreateCache(c, o, named, r) ==
  /\ ~Has(c)
  /\ Sensible(o, named, <<r>>) /\ Count(<<o, r>>) /\ Turn("create", c, o = "ok")
  /\ h' = [h EXCEPT ![c] = Born(@, o, named, r)]
  /\ ver' = IF o = "ok" THEN [ver EXCEPT ![c] = [prov |-> 0, wrap |-> 0, poisoned |-> FALSE]] ELSE ver
  /\ UNCHANGED posn
CreateCacheF32(o, named, r) == CreateCache("cache", o, named, r)
CreateKdaCache(o, named, r) == CreateCache("kda", o, named, r)
CreateMlaCache(o, named, r) == CreateCache("mla", o, named, r)

---------------------------------------------------------------------------
(* Decode transactions.  A ticket borrows its cache: nothing else can use it.*)

\* Mutant: the output of a rejected decode is forgotten.
Bug_Decode(c, o, named, rt, ro) ==
  /\ Has(c) /\ Has("tensor") /\ ~Has(TicketOf[c]) /\ ~ver[c].poisoned
  /\ LET seen == IF o = "ok" /\ ver[c].prov # ver[c].wrap THEN "garbled" ELSE o
     IN  /\ (o = "ok" => named) /\ Sensible(seen, named, <<rt, ro>>) /\ Count(<<o, rt, ro>>) /\ Turn("decode", c, seen = "ok")
         /\ h["tensor"].owned < MaxTensors
         /\ h' = [h EXCEPT ![TicketOf[c]] = Born(@, seen, named, rt),
                           !["tensor"] = IF seen = "garbled" THEN [@ EXCEPT !.live = @ + 1]
                                         ELSE Born(@, seen, named, ro)]
  /\ UNCHANGED <<ver, posn>>

\* decode_kda and decode_mla: a ticket and an output; the report must carry the
\* wrapper's version of the cache.
Decode(c, o, named, rt, ro) ==
  /\ Has(c) /\ Has("tensor") /\ ~Has(TicketOf[c]) /\ ~ver[c].poisoned
  /\ LET seen == IF o = "ok" /\ ver[c].prov # ver[c].wrap THEN "garbled" ELSE o
     IN  /\ (o = "ok" => named) /\ Sensible(seen, named, <<rt, ro>>) /\ Count(<<o, rt, ro>>) /\ Turn("decode", c, seen = "ok")
         /\ h["tensor"].owned < MaxTensors
         /\ h' = [h EXCEPT ![TicketOf[c]] = Born(@, seen, named, rt),
                           !["tensor"] = Born(@, seen, named, ro)]
  /\ UNCHANGED <<ver, posn>>

DecodeKda(o, named, rt, ro) == Decode("kda", o, named, rt, ro)
DecodeMla(o, named, rt, ro) == Decode("mla", o, named, rt, ro)

\* Mutant: the route is accepted at any cache version.
Bug_ValidRoute(o) == o

\* validate_route_mailbox: the version in the mailbox must be the wrapper's.
ValidRoute(o) == IF o = "ok" /\ ver["cache"].prov # ver["cache"].wrap THEN "garbled" ELSE o

\* prepare_layer of the plain cache.
PrepareLayer(o, named, r) ==
  /\ Has("cache") /\ Has("tensor") /\ ~Has("layer")
  /\ LET seen == ValidRoute(o)
     IN  /\ (o = "ok" => named) /\ Sensible(seen, named, <<r>>) /\ Count(<<o, r>>) /\ Turn("prepare", "cache", seen = "ok")
         /\ h' = [h EXCEPT !["layer"] = Born(@, seen, named, r)]
  /\ UNCHANGED <<ver, posn>>

\* PreparedLayer::finish: the provider consumes the ticket and moves the cache
\* on; a bad report releases the output it names and leaves the wrapper's
\* version behind.  A refusal drops the ticket.
FinishLayer(o, named, r) ==
  /\ Has("layer") /\ Has("tensor") /\ h["tensor"].owned < MaxTensors /\ ver["cache"].prov < MaxVersion
  /\ (o = "ok" => r = "ok") /\ (o # "garbled" => named) /\ (~named => r = "ok")
  /\ Count(<<o, r>>) /\ Turn("finish", "cache", o = "ok")
  /\ h' = [h EXCEPT !["layer"] = IF o = "refused" THEN Freed(@, r) ELSE Freed(@, "ok"),
                    !["tensor"] = Born(@, o, named, r)]
  /\ ver' = IF o = "refused" THEN ver
            ELSE [ver EXCEPT !["cache"].prov = @ + 1, !["cache"].wrap = IF o = "ok" THEN @ + 1 ELSE @]
  /\ UNCHANGED posn

\* PreparedKdaDecode::commit and PreparedMlaDecode::commit: a bad report
\* poisons the cache; unless it succeeds the output is dropped.
CommitDecode(c, o, rt, ro) ==
  /\ Has(TicketOf[c]) /\ ver[c].prov < MaxVersion
  /\ (o # "refused" => rt = "ok") /\ (o = "ok" => ro = "ok")
  /\ Count(<<o, rt, ro>>) /\ Turn("commit", c, o = "ok")
  /\ h' = [h EXCEPT ![TicketOf[c]] = Freed(@, rt),
                    !["tensor"] = IF o = "ok" THEN @ ELSE Freed(@, ro)]
  /\ ver' = CASE o = "refused" -> ver
              [] o = "ok" -> [ver EXCEPT ![c].prov = @ + 1, ![c].wrap = @ + 1]
              [] OTHER -> [ver EXCEPT ![c].prov = @ + 1, ![c].poisoned = TRUE]
  /\ UNCHANGED posn

CommitKda(o, rt, ro) == CommitDecode("kda", o, rt, ro)
CommitMla(o, rt, ro) == CommitDecode("mla", o, rt, ro)

\* cancel: a refused release is tried once more as the ticket is dropped.
Cancel(c, r1, r2, ro) ==
  /\ Has(TicketOf[c])
  /\ (r1 = "ok" => r2 = "ok") /\ Count(<<r1, r2, ro>>) /\ Turn("cancel", c, r1 = "ok")
  /\ h' = [h EXCEPT ![TicketOf[c]] = Freed(@, IF r1 = "ok" THEN r1 ELSE r2), !["tensor"] = Freed(@, ro)]
  /\ UNCHANGED <<ver, posn>>

---------------------------------------------------------------------------
(* One-position target transactions and branches, used freely.               *)

\* begin_target_position and target_position_from_report
BeginPosition(o, named, r) ==
  /\ FreeTarget /\ ~Has("position") /\ UNCHANGED <<ver, todo>>
  /\ Sensible(o, named, <<r>>) /\ Count(<<o, r>>)
  /\ h' = [h EXCEPT !["position"] = Born(@, o, named, r)]
  /\ posn' = [next |-> 0, waiting |-> FALSE]

\* prepare_layer: a refusal changes nothing, a bad report cancels.
PreparePosition(o, r) ==
  /\ FreeTarget /\ Has("position") /\ ~posn.waiting /\ posn.next < PositionLayers /\ UNCHANGED <<ver, todo>>
  /\ (o # "garbled" => r = "ok") /\ Count(<<o, r>>)
  /\ posn' = IF o # "ok" THEN posn
             ELSE IF posn.next = 0 THEN [posn EXCEPT !.next = 1] ELSE [posn EXCEPT !.waiting = TRUE]
  /\ h' = IF o = "garbled" THEN [h EXCEPT !["position"] = Freed(@, r)] ELSE h

\* finish_experts
FinishExperts(o, r) ==
  /\ FreeTarget /\ Has("position") /\ posn.waiting /\ UNCHANGED <<ver, todo>>
  /\ (o # "garbled" => r = "ok") /\ Count(<<o, r>>)
  /\ posn' = IF o = "ok" THEN [next |-> posn.next + 1, waiting |-> FALSE]
             ELSE IF o = "garbled" THEN [posn EXCEPT !.waiting = FALSE] ELSE posn
  /\ h' = IF o = "garbled" THEN [h EXCEPT !["position"] = Freed(@, r)] ELSE h

\* finish_greedy consumes the wrapper: the provider has taken the position back
\* unless it refused, and then the drop cancels it.
FinishGreedy(o, r) ==
  /\ FreeTarget /\ Has("position") /\ ~posn.waiting /\ posn.next = PositionLayers /\ UNCHANGED <<ver, posn, todo>>
  /\ (o # "refused" => r = "ok") /\ Count(<<o, r>>)
  /\ h' = [h EXCEPT !["position"] = Freed(@, r)]

\* begin_target_state_branch: a branch a bad report announces is left to the
\* provider, and inspect_target_state refuses the session from then on.
BeginBranch(o) ==
  /\ FreeTarget /\ ~Has("branch") /\ h["branch"].live = 0 /\ UNCHANGED <<ver, posn, todo>> /\ Count(<<o>>)
  /\ h' = [h EXCEPT !["branch"] = Born(@, o, FALSE, "ok")]

\* resolve_target_state_branch: after a refusal or a bad report the drop
\* discards the branch once more.
ResolveBranch(o, r) ==
  /\ FreeTarget /\ Has("branch") /\ UNCHANGED <<ver, posn, todo>>
  /\ (o # "refused" => r = "ok") /\ Count(<<o, r>>)
  /\ h' = [h EXCEPT !["branch"] = Freed(@, r)]

---------------------------------------------------------------------------
(* The drops.                                                               *)

\* A cache is borrowed by its ticket, and the output of a decode belongs to it.
Busy(k) == \/ k \in Caches /\ Has(TicketOf[k])
           \/ k = "tensor" /\ (Has("kda_ticket") \/ Has("mla_ticket"))

\* A wrapper goes out of scope, by the free user, at the end of a canary or
\* while its error unwinds.
DropWrapper(k, r) ==
  /\ FreeUser \/ Unwinding
  /\ Has(k) /\ ~Busy(k) /\ Count(<<r>>)
  /\ k \in {"kda_ticket", "mla_ticket"} => r = "ok"  \* Cancel covers the refusal
  /\ LET with == IF k \in {"kda_ticket", "mla_ticket"} THEN {k, "tensor"} ELSE {k}
     IN  h' = [x \in Kinds |-> IF x \in with THEN Freed(h[x], r) ELSE h[x]]
  /\ UNCHANGED <<ver, posn, todo>>

\* SessionInner::drop: every wrapper keeps the session alive.
SessionDrop ==
  /\ FreeUser \/ Unwinding
  /\ \A k \in Kinds : ~Has(k)
  /\ h' = [k \in Kinds |-> [h[k] EXCEPT !.live = 0, !.stranded = 0]]
  /\ todo' = <<<<"closed", "">>>> /\ UNCHANGED <<ver, posn, badCalls>>

PNext ==
  \/ \E o \in Replies, named \in BOOLEAN, r \in Releases :
       Upload(o, named, r) \/ PrepareLayer(o, named, r) \/ FinishLayer(o, named, r) \/ BeginPosition(o, named, r)
  \/ \E o \in Replies, named \in BOOLEAN, r \in Releases :
       CreateCacheF32(o, named, r) \/ CreateKdaCache(o, named, r) \/ CreateMlaCache(o, named, r)
  \/ \E o \in Replies, named \in BOOLEAN, rt, ro \in Releases : DecodeKda(o, named, rt, ro) \/ DecodeMla(o, named, rt, ro)
  \/ \E o \in Replies, rt, ro \in Releases : CommitKda(o, rt, ro) \/ CommitMla(o, rt, ro)
  \/ \E c \in Caches \ {"cache"}, r1, r2, ro \in Releases : Cancel(c, r1, r2, ro)
  \/ \E o \in Replies, r \in Releases :
       PreparePosition(o, r) \/ FinishExperts(o, r) \/ FinishGreedy(o, r) \/ ResolveBranch(o, r)
  \/ \E o \in Replies : BeginBranch(o)
  \/ \E k \in Kinds, r \in Releases : DropWrapper(k, r)
  \/ SessionDrop

PSpec == PInit /\ [][PNext]_pvars

---------------------------------------------------------------------------
(* Properties.                                                              *)

\* Whatever call is refused or answers nonsense, every handle alive in the
\* provider has a wrapper that will release it, but for those whose release the
\* provider refused or that no report named: the error paths of the session
\* leak nothing (provider.rs, the release_resource calls after a bad report).
HandlesAreOwned == \A k \in Kinds : h[k].live = h[k].owned + h[k].stranded

\* A prepared decode or layer was prepared from the cache as the wrapper knows
\* it: after a commit whose report was rejected no ticket is issued on the cache,
\* though only two of its three kinds are marked poisoned (cache_version in
\* decode_kda, decode_mla and validate_route_mailbox).
TicketsSeeTheirCache ==
  \A c \in Caches : Has(TicketOf[c]) => ver[c].prov = ver[c].wrap

\* Both: what is alive has an owner, and what is in preparation is current.
NothingIsForgotten == HandlesAreOwned /\ TicketsSeeTheirCache
=============================================================================
