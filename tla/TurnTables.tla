----------------------------- MODULE TurnTables -----------------------------
(***************************************************************************)
(* The hash tables of one allocation of the TURN server: permissions by    *)
(* address, channels by number, and in each permission its channels by     *)
(* port, which point into the table of channels and back.  A bucket has a  *)
(* few slots and grows by further slots, which stay for later use.         *)
(* TurnAllocation has the functions that these tables stand for; here they *)
(* are "granted" and "bound".                                              *)
(***************************************************************************)
EXTENDS Integers, Sequences, FiniteSets, SequencesExt, Functions

CONSTANTS
    Addrs,      \* addresses of peers
    HashOf,     \* addr_hash_no_port
    Ports, Numbers,
    HashSize,   \* buckets of a table (8 in the code)
    ArraySize   \* slots of a new bucket (3 in the code)

VARIABLES perms, chns, granted, bound

tableVars == <<perms, chns, granted, bound>>

Buckets == 0..HashSize - 1
Free == [free |-> TRUE]
IsFree(e) == e = Free
NewTable == [b \in Buckets |-> [i \in 1..ArraySize |-> Free]]

None == <<>>
Slot(table, at) == table[at[1]][at[2]]

Places(table) == UNION {{<<b, i>>: i \in DOMAIN table[b]}: b \in Buckets}
Used(table) == {at \in Places(table): Slot(table, at) # Free}

\* The place of the first slot of bucket b with the given property, or None.
FirstSlot(table, b, Test(_)) ==
    LET i == SelectInSeq(table[b], Test) IN IF i = 0 THEN None ELSE <<b, i>>

\* The first free slot of bucket b, or a further one.
NewSlot(table, b) ==
    IF FirstSlot(table, b, IsFree) = None THEN <<b, Len(table[b]) + 1>>
    ELSE FirstSlot(table, b, IsFree)

Stored(table, at, e) ==
    [table EXCEPT ![at[1]] = IF at[2] <= Len(@) THEN [@ EXCEPT ![at[2]] = e] ELSE Append(@, e)]

----------------------------------------------------------------------------
(* lm_map: a permission's channels by port.                                *)

Entry(port, at) == [port |-> port, chn |-> at]
IsPort(e, port) == e # Free /\ e.port = port

\* A port is looked for in the first slots only, up to the first free one, and
\* is left as it is when found.  No map has a port 0.
LmPut(map, port, at) ==
    LET b == port % HashSize
        Stops(e) == e = Free \/ IsPort(e, port)
        i == SelectInSeq(SubSeq(map[b], 1, ArraySize), Stops)
    IN IF port = 0 \/ (i # 0 /\ map[b][i] # Free) THEN map
       ELSE Stored(map, NewSlot(map, b), Entry(port, at))

\* The pointer that is found under the port, or None.
LmGet(map, port) ==
    LET at == FirstSlot(map, port % HashSize, LAMBDA e: IsPort(e, port))
    IN IF port = 0 \/ at = None THEN None ELSE Slot(map, at).chn

\* Mutant of LmDel: only the first slots are searched.
LmDelFirst(map, port) ==
    LET at == FirstSlot(map, port % HashSize, LAMBDA e: IsPort(e, port))
    IN IF port = 0 \/ at = None \/ at[2] > ArraySize THEN map ELSE Stored(map, at, Free)

\* The slot is emptied and no other is moved.
LmDel(map, port) ==
    LET at == FirstSlot(map, port % HashSize, LAMBDA e: IsPort(e, port))
    IN IF port = 0 \/ at = None THEN map ELSE Stored(map, at, Free)

LmPointers(map) == {Slot(map, at).chn: at \in Used(map)}

----------------------------------------------------------------------------
(* The tables of the allocation.                                           *)

\* get_from_turn_permission_hashtable
PermAt(a) == FirstSlot(perms, HashOf[a], LAMBDA e: e # Free /\ e.addr = a)

\* ch_map_get of a number that is there.
ChannelAt(n) == FirstSlot(chns, n % HashSize, LAMBDA e: e # Free /\ e.num = n)

\* allocation_get_ch_info_by_peer_addr
ChannelOfPeer(a, port) ==
    IF PermAt(a) = None THEN None ELSE LmGet(Slot(perms, PermAt(a)).chns, port)

\* ch_info_clean of each of these slots.
Cleaned(table, places) ==
    [b \in Buckets |-> [i \in DOMAIN table[b] |->
        IF <<b, i>> \in places THEN Free ELSE table[b][i]]]

NewPerm(a) == [addr |-> a, chns |-> NewTable]

TablesInit ==
    /\ perms = NewTable /\ chns = NewTable
    /\ granted = {} /\ bound = [n \in {} |-> n]

\* allocation_add_permission, of an address that was not found.
AddPermission(a) ==
    /\ PermAt(a) = None
    /\ perms' = Stored(perms, NewSlot(perms, HashOf[a]), NewPerm(a))
    /\ granted' = granted \cup {a}
    /\ UNCHANGED <<chns, bound>>

\* allocation_get_new_ch_info after the checks of a ChannelBind request: neither
\* the number nor the peer has a channel.  The permission is added if need be.
NewChannel(n, a, port) ==
    /\ ChannelAt(n) = None /\ ChannelOfPeer(a, port) = None
    /\ LET at == NewSlot(chns, n % HashSize)
           owner == IF PermAt(a) = None THEN NewSlot(perms, HashOf[a]) ELSE PermAt(a)
           perm == IF PermAt(a) = None THEN NewPerm(a) ELSE Slot(perms, owner)
       IN /\ perms' = Stored(perms, owner, [perm EXCEPT !.chns = LmPut(@, port, at)])
          /\ chns' = Stored(chns, at, [num |-> n, addr |-> a, port |-> port, owner |-> owner])
    /\ granted' = granted \cup {a}
    /\ bound' = [m \in DOMAIN bound \cup {n} |-> IF m = n THEN <<a, port>> ELSE bound[m]]

\* turn_channel_delete of the channel whose timer is due: its owner is left by
\* port, also when the owner's slot is free again or another permission's.
ChannelDelete(at) ==
    /\ at \in Used(chns)
    /\ LET c == Slot(chns, at) IN
       /\ perms' = IF Slot(perms, c.owner) = Free THEN perms
                   ELSE [perms EXCEPT ![c.owner[1]][c.owner[2]].chns = LmDel(@, c.port)]
       /\ bound' = Restrict(bound, DOMAIN bound \ {c.num})
    /\ chns' = Cleaned(chns, {at})
    /\ UNCHANGED granted

\* turn_permission_clean of the permission whose timer is due.
PermissionClean(at) ==
    /\ at \in Used(perms)
    /\ LET gone == LmPointers(Slot(perms, at).chns) IN
       /\ chns' = Cleaned(chns, gone)
       /\ bound' = Restrict(bound, DOMAIN bound \ {Slot(chns, c).num: c \in gone})
    /\ perms' = Cleaned(perms, {at})
    /\ granted' = granted \ {Slot(perms, at).addr}

\* clear_allocation: both tables give their further slots back.
ClearAllocation ==
    /\ perms' = NewTable /\ chns' = NewTable
    /\ granted' = {} /\ bound' = [n \in {} |-> n]

TablesNext ==
    \/ \E a \in Addrs: AddPermission(a)
    \/ \E n \in Numbers, a \in Addrs, port \in Ports: NewChannel(n, a, port)
    \/ \E at \in Places(chns): ChannelDelete(at)
    \/ \E at \in Places(perms): PermissionClean(at)
    \/ ClearAllocation

TablesSpec == TablesInit /\ [][TablesNext]_tableVars

----------------------------------------------------------------------------
\* Every lookup of the code finds what was put there and not deleted since:
\* permissions by address, channels by number, and by their peer.  A channel
\* of a peer with port 0 is never found by the peer (lm_map has no key 0).
LookupsRight ==
    /\ \A a \in Addrs: PermAt(a) # None <=> a \in granted
    /\ \A n \in Numbers:
           /\ ChannelAt(n) # None <=> n \in DOMAIN bound
           /\ ChannelAt(n) # None =>
                  LET c == Slot(chns, ChannelAt(n)) IN bound[n] = <<c.addr, c.port>>
    /\ \A a \in Addrs, port \in Ports \ {0}:
           LET at == ChannelOfPeer(a, port)
               ns == {n \in DOMAIN bound: bound[n] = <<a, port>>}
           IN IF at = None THEN ns = {}
              ELSE Slot(chns, at) # Free /\ ns = {Slot(chns, at).num}

\* No pointer between the tables is left to a slot that was emptied or that
\* belongs to another channel or permission by now; but the channel of a port 0
\* stays when its permission goes.
NoStalePointer ==
    /\ \A at \in Used(perms): \A c \in LmPointers(Slot(perms, at).chns):
           Slot(chns, c) # Free /\ Slot(chns, c).owner = at
    /\ \A at \in Used(chns):
           LET c == Slot(chns, at) IN
           c.port # 0 => /\ c.owner \in Used(perms)
                         /\ Slot(perms, c.owner).addr = c.addr
                         /\ LmGet(Slot(perms, c.owner).chns, c.port) = at
=============================================================================
