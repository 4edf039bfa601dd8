--------------------------- MODULE TurnAllocation ---------------------------
(***************************************************************************)
(* One allocation of the TURN server of dtnat, a UDP relay: permissions    *)
(* for addresses, channels for peers, their timers, and the datagrams that *)
(* go through (ns_turn_allocation.c and ns_turn_server.c).                 *)
(*                                                                         *)
(* The server runs one event loop: a handler is a step.  A timer that is   *)
(* due runs before time goes on, but requests and datagrams that arrived   *)
(* may be handled first.  The server checks permissions (server_relay is   *)
(* off), and requests are well formed unless an action says otherwise.     *)
(***************************************************************************)
EXTENDS Integers, FiniteSets, Functions

CONSTANTS
    Addrs,      \* addresses of peers
    Ports,      \* their ports
    Numbers,    \* channel numbers
    Forbidden,  \* addresses that the server refuses as peers
    PermLife,   \* STUN_PERMISSION_LIFETIME, in ticks
    ChanLife,   \* STUN_CHANNEL_LIFETIME
    AllocLife   \* the lifetime of an allocation

Peers == Addrs \X Ports
Addr(p) == p[1]
Port(p) == p[2]

VARIABLES
    alloc,    \* the allocation
    out,      \* what the last step relayed
    granted,  \* how long the client's requests last, for each address
    bound     \* the peer that the client last bound each channel to

vars == <<alloc, out, granted, bound>>

Nothing == [to |-> "nobody"]
Empty == [x \in {} |-> x]

\* struct _allocation: is_valid, the time left to lifetime_ev, addr_to_perm with
\* the channels of each permission by port, and the channels by number.
NewAllocation == [valid |-> FALSE, left |-> AllocLife, perms |-> Empty, chans |-> Empty]

Drop(f, keys) == Restrict(f, DOMAIN f \ keys)
With(f, key, v) == [k \in DOMAIN f \cup {key} |-> IF k = key THEN v ELSE f[k]]

-----------------------------------------------------------------------------
(* Permissions and channels.                                               *)

\* Mutant of PermissionClean: the channels of the permission are left.
PermissionCleanOnly(A, a) == [A EXCEPT !.perms = Drop(@, {a})]

\* turn_permission_clean: the channels of a permission go with it.
PermissionClean(A, a) ==
    [A EXCEPT !.perms = Drop(@, {a}), !.chans = Drop(@, Range(A.perms[a].chns))]

\* turn_channel_delete
ChannelDelete(A, n) ==
    LET p == A.chans[n].peer
    IN  [A EXCEPT !.chans = Drop(@, {n}), !.perms[Addr(p)].chns = Drop(@, {Port(p)})]

\* Mutant of UpdatePermission: always as long as a channel.
UpdatePermissionLong(A, a, life) ==
    LET chns == IF a \in DOMAIN A.perms THEN A.perms[a].chns ELSE Empty
    IN  [A EXCEPT !.perms = With(@, a, [left |-> ChanLife, chns |-> chns])]

\* update_turn_permission_lifetime of a permission that is added if need be.
UpdatePermission(A, a, life) ==
    LET chns == IF a \in DOMAIN A.perms THEN A.perms[a].chns ELSE Empty
    IN  [A EXCEPT !.perms = With(@, a, [left |-> life, chns |-> chns])]

\* allocation_get_new_ch_info and update_channel_lifetime: a channel takes its
\* permission with it to its own lifetime.
Bind(A, n, p) ==
    LET B == UpdatePermission(A, Addr(p), ChanLife)
    IN  [B EXCEPT !.perms[Addr(p)].chns = With(@, Port(p), n),
                  !.chans = With(@, n, [peer |-> p, left |-> ChanLife])]

\* get_turn_channel_number: 0 without a channel.
ChannelOf(A, p) ==
    IF Addr(p) \in DOMAIN A.perms /\ Port(p) \in DOMAIN A.perms[Addr(p)].chns
    THEN A.perms[Addr(p)].chns[Port(p)] ELSE 0

\* Mutant of MayBind: a peer may have two channels.
MayBindTwice(A, n, p) ==
    IF n \in DOMAIN A.chans THEN A.chans[n].peer = p ELSE Addr(p) \notin Forbidden

\* The checks of handle_turn_channel_bind: a number stays with its peer and a
\* peer with its number; good_peer_addr is asked of a new channel only.
MayBind(A, n, p) ==
    IF n \in DOMAIN A.chans THEN A.chans[n].peer = p
    ELSE ChannelOf(A, p) = 0 /\ Addr(p) \notin Forbidden

-----------------------------------------------------------------------------
(* The handlers.                                                           *)

Init ==
    /\ alloc = NewAllocation
    /\ out = Nothing
    /\ granted = Empty /\ bound = Empty

Quiet == out' = Nothing

\* Allocate, also after the old allocation was deleted but is not yet gone:
\* permissions and channels of that one are still there.
Allocate ==
    /\ ~alloc.valid
    /\ alloc' = [alloc EXCEPT !.valid = TRUE, !.left = AllocLife]
    /\ Quiet /\ UNCHANGED <<granted, bound>>

\* Refresh; with lifetime 0 the allocation is no longer valid and ends after
\* one more second.
RefreshRelay(delete) ==
    /\ alloc.valid
    /\ alloc' = IF delete THEN [alloc EXCEPT !.valid = FALSE, !.left = 1]
                ELSE [alloc EXCEPT !.left = AllocLife]
    /\ Quiet /\ UNCHANGED <<granted, bound>>

Longer(f, keys, life) ==
    [k \in DOMAIN f \cup keys |->
        IF k \in keys /\ ~(k \in DOMAIN f /\ f[k] > life) THEN life ELSE f[k]]

\* All the addresses of a request, or none when one of them is refused.
CreatePermission(as) ==
    /\ alloc.valid /\ as \cap Forbidden = {}
    /\ alloc' = [alloc EXCEPT !.perms =
          [a \in DOMAIN @ \cup as |->
              IF a \notin as THEN @[a] ELSE UpdatePermission(alloc, a, PermLife).perms[a]]]
    /\ granted' = Longer(granted, as, PermLife)
    /\ Quiet /\ UNCHANGED bound

ChannelBind(n, p) ==
    /\ alloc.valid /\ MayBind(alloc, n, p)
    /\ alloc' = Bind(alloc, n, p)
    /\ granted' = Longer(granted, {Addr(p)}, ChanLife)
    /\ bound' = With(bound, n, p)
    /\ Quiet

\* handle_turn_send: a Send indication of the client.
TurnSend(p) ==
    /\ alloc.valid /\ Addr(p) \in DOMAIN alloc.perms
    /\ out' = [to |-> "peer", peer |-> p, chan |-> 0]
    /\ UNCHANGED <<alloc, granted, bound>>

\* write_to_peerchannel: channel data of the client.
WriteToPeerChannel(n) ==
    /\ alloc.valid /\ n \in DOMAIN alloc.chans
    /\ out' = [to |-> "peer", peer |-> alloc.chans[n].peer, chan |-> n]
    /\ UNCHANGED <<alloc, granted, bound>>

\* Mutant of PeerInput: a channel is enough.
PeerInputAny(p) ==
    /\ alloc.valid
    /\ out' = [to |-> "client", peer |-> p, chan |-> ChannelOf(alloc, p)]
    /\ UNCHANGED <<alloc, granted, bound>>

\* peer_input_handler: a peer with a permission, over its channel if it has one.
PeerInput(p) ==
    /\ alloc.valid /\ Addr(p) \in DOMAIN alloc.perms
    /\ out' = [to |-> "client", peer |-> p, chan |-> ChannelOf(alloc, p)]
    /\ UNCHANGED <<alloc, granted, bound>>

\* The timers.
PermTimeout(a) ==
    /\ a \in DOMAIN alloc.perms /\ alloc.perms[a].left = 0
    /\ alloc' = PermissionClean(alloc, a)
    /\ Quiet /\ UNCHANGED <<granted, bound>>

ChannelTimeout(n) ==
    /\ n \in DOMAIN alloc.chans /\ alloc.chans[n].left = 0
    /\ alloc' = ChannelDelete(alloc, n)
    /\ Quiet /\ UNCHANGED <<granted, bound>>

\* clear_allocation, when the session goes; another session begins.
AllocationTimeout ==
    /\ alloc.left = 0
    /\ alloc' = NewAllocation
    /\ granted' = Empty /\ bound' = Empty
    /\ Quiet

Aged(f) == [k \in DOMAIN f |-> [f[k] EXCEPT !.left = @ - 1]]

Tick ==
    /\ alloc.left > 0
    /\ \A a \in DOMAIN alloc.perms : alloc.perms[a].left > 0
    /\ \A n \in DOMAIN alloc.chans : alloc.chans[n].left > 0
    /\ alloc' = [alloc EXCEPT !.left = @ - 1, !.perms = Aged(@), !.chans = Aged(@)]
    /\ granted' = [a \in {b \in DOMAIN granted : granted[b] > 0} |-> granted[a] - 1]
    /\ Quiet /\ UNCHANGED bound

Next ==
    \/ Allocate \/ AllocationTimeout \/ Tick
    \/ \E delete \in BOOLEAN : RefreshRelay(delete)
    \/ \E as \in SUBSET Addrs \ {{}} : CreatePermission(as)
    \/ \E a \in Addrs : PermTimeout(a)
    \/ \E p \in Peers :
          TurnSend(p) \/ PeerInput(p) \/ \E n \in Numbers : ChannelBind(n, p)
    \/ \E n \in Numbers : ChannelTimeout(n) \/ WriteToPeerChannel(n)

Spec == Init /\ [][Next]_vars

-----------------------------------------------------------------------------
(* Properties.                                                             *)

TypeOK ==
    /\ alloc.valid \in BOOLEAN /\ alloc.left \in 0..AllocLife
    /\ DOMAIN alloc.perms \subseteq Addrs \ Forbidden
    /\ \A a \in DOMAIN alloc.perms : alloc.perms[a].left \in 0..ChanLife
    /\ DOMAIN alloc.chans \subseteq Numbers
    /\ \A n \in DOMAIN alloc.chans :
          alloc.chans[n].left \in 0..ChanLife /\ alloc.chans[n].peer \in Peers

\* The two tables of channels are one: by number in the allocation and by port
\* in the permission of the peer's address, which is there.  Handlers reach a
\* channel by either and follow pointers from one to the other.
MapsAgree ==
    /\ \A n \in DOMAIN alloc.chans : ChannelOf(alloc, alloc.chans[n].peer) = n
    /\ \A a \in DOMAIN alloc.perms : \A port \in DOMAIN alloc.perms[a].chns :
          LET n == alloc.perms[a].chns[port]
          IN  n \in DOMAIN alloc.chans /\ alloc.chans[n].peer = <<a, port>>

\* What is relayed, in either direction, is to or from an address that a
\* request of the client covers at that time, and data under a channel number
\* is of the peer that the client bound the number to.
RelayedAsAsked ==
    out # Nothing =>
        /\ Addr(out.peer) \in DOMAIN granted
        /\ out.chan # 0 => bound[out.chan] = out.peer

\* No permission lasts longer than what the client asked for, and a channel
\* does not keep its permission from ending.
NoLongerThanAsked ==
    \A a \in DOMAIN alloc.perms :
        a \in DOMAIN granted /\ alloc.perms[a].left <= granted[a]
=============================================================================
