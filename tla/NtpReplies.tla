----------------------------- MODULE NtpReplies -----------------------------
(***************************************************************************)
(* Who gets the time (time/TimeServer.cpp, serverLoop and rateLimited): a    *)
(* request from outside the subnet or from a computer that is not allowed is *)
(* dropped without a trace; the others are counted in a small table of the   *)
(* most recent clients, a window of one second each, and the oldest window   *)
(* gives way when the table is full.                                         *)
(*                                                                         *)
(* The window is Window ticks long.  One client is watched: how often it     *)
(* asked and was answered in the last tick, the last two, up to Window.      *)
(***************************************************************************)
EXTENDS Naturals, FiniteSetsExt

CONSTANTS
    NtpClient, NoClient,
    Watched,            \* the client whose requests are counted
    Foreign,            \* the clients a filter drops
    RateSlots,          \* kRateSlots
    Window,             \* the ticks of a second
    RateLimit,          \* rateLimitPerSec_
    MaxTick, MaxAsked   \* bounds on the time and on the requests of one tick

ASSUME NtpAssumption ==
    /\ Watched \in NtpClient \ Foreign /\ NoClient \notin NtpClient
    /\ RateSlots \in Nat \ {0} /\ Window \in Nat \ {0} /\ RateLimit \in Nat \ {0}
    /\ MaxTick \in Nat /\ MaxAsked \in Nat

VARIABLES
    tick,               \* nowMs
    rateSlots,          \* rateSlots_
    asked, answered,    \* of the watched client, in the last i ticks
    forgotten           \* the watched client lost its slot in the last i ticks

ntpVars == <<tick, rateSlots, asked, answered, forgotten>>

FreeSlot == [ip |-> NoClient, start |-> 0, count |-> 0]
Quiet == [i \in 1..Window |-> 0]

NtpTypeOK ==
    /\ tick \in 0..MaxTick
    /\ rateSlots \in [1..RateSlots -> [ip : NtpClient \cup {NoClient}, start : 0..MaxTick,
                                       count : 0..RateLimit]]
    /\ asked \in [1..Window -> Nat] /\ answered \in [1..Window -> Nat]
    /\ forgotten \in [1..Window -> BOOLEAN]

NtpInit ==
    /\ tick = 0
    /\ rateSlots = [i \in 1..RateSlots |-> FreeSlot]
    /\ asked = Quiet /\ answered = Quiet
    /\ forgotten = [i \in 1..Window |-> FALSE]

\* A tick ago the last i ticks were the last i - 1.
older(h, now) == [i \in 1..Window |-> IF i = 1 THEN now ELSE h[i - 1]]
oneMore(h) == [i \in 1..Window |-> h[i] + 1]

tickPasses ==
    /\ tick < MaxTick
    /\ tick' = tick + 1
    /\ asked' = older(asked, 0) /\ answered' = older(answered, 0)
    /\ forgotten' = older(forgotten, FALSE)
    /\ UNCHANGED rateSlots

-----------------------------------------------------------------------------
\* The client's own slot, else the first free one, else the oldest window: the
\* table is filled from the front and never emptied.
slotOf(c) ==
    LET own == {i \in 1..RateSlots : rateSlots[i].ip = c}
        free == {i \in 1..RateSlots : rateSlots[i].ip = NoClient}
        oldest == {i \in 1..RateSlots :
                    \A j \in 1..RateSlots : rateSlots[i].start <= rateSlots[j].start}
    IN Min(IF own # {} THEN own ELSE IF free # {} THEN free ELSE oldest)

\* A window that is over, or somebody else's, starts again.
counted(s, c) ==
    LET fresh == s.ip # c \/ tick - s.start >= Window
        past == IF fresh THEN 0 ELSE s.count
    IN [ip |-> c, start |-> IF fresh THEN tick ELSE s.start,
        count |-> IF past < RateLimit THEN past + 1 ELSE past]

\* The limit is asked about the window as it stands now.
rateLimited(s, c) == s.ip = c /\ tick - s.start < Window /\ s.count >= RateLimit

\* One request: filters, the limit, the reply (which says so itself when the
\* clock has never been set).
serverLoop(c) ==
    /\ c \notin Foreign
    /\ c = Watched => asked[1] < MaxAsked
    /\ LET i == slotOf(c)
           s == rateSlots[i]
           limited == rateLimited(s, c)
       IN /\ rateSlots' = [rateSlots EXCEPT ![i] = counted(s, c)]
          /\ asked' = IF c = Watched THEN oneMore(asked) ELSE asked
          /\ answered' = IF c = Watched /\ ~limited THEN oneMore(answered) ELSE answered
          /\ forgotten' = IF s.ip = Watched /\ c # Watched THEN [d \in 1..Window |-> TRUE]
                          ELSE forgotten
    /\ UNCHANGED tick

\* A request a filter drops: nothing is remembered of it.
serverLoop_Dropped(c) == c \in Foreign /\ UNCHANGED ntpVars

NtpNext == tickPasses \/ \E c \in NtpClient : serverLoop(c) \/ serverLoop_Dropped(c)

-----------------------------------------------------------------------------
\* A request that keeps its client within the limit over the last second is
\* answered, whoever else asks, whichever slots give way and however often the
\* same client was refused before.
PoliteIsServed ==
    tick' = tick /\ asked' # asked /\ asked'[Window] <= RateLimit => answered' # answered

\* A client whose slot did not give way is answered at most twice the limit in
\* a second: the end of one window and the beginning of the next.
RepliesBounded == ~forgotten[Window] => answered[Window] <= 2 * RateLimit
=============================================================================
