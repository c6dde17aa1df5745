----------------------------- MODULE CardMount -----------------------------
(***************************************************************************)
(* The memory card as the device holds it (storage/SdFileSystem.cpp, asked   *)
(* by files/FileManager.cpp): mounted by the pass that a page triggers,      *)
(* dropped when it no longer answers, formatted by a task, its supply cut    *)
(* when the format hangs.                                                    *)
(*                                                                         *)
(* Pages follow one another.  The driver is external: it owns a controller,  *)
(* the path in the file system and the card's handle, which it takes         *)
(* together and which one call gives back.                                   *)
(***************************************************************************)
EXTENDS Naturals

VARIABLES
    sd,                 \* the slot: "out", "blank" (no file system) or "good"
    board,              \* fixed: which level powers the slot, is there a switch, is the bus flaky
    driver,             \* the controller is claimed, a volume is mounted
    sdMounted,          \* mounted_, and with it card_
    power,              \* pwrLevel_, pwrInverted_, pwrProven_
    sdFormat,         \* where FileManager::format stands
    sdPage,             \* where the pass of a page stands
    cutOff,             \* the supply was cut during this format
    sdCrossed           \* a page was past its look at formatting_ when a format began

cardVars == <<sd, board, driver, sdMounted, power, sdFormat, sdPage, cutOff, sdCrossed>>

Level == {"configured", "opposite"}
Opposite(level) == IF level = "configured" THEN "opposite" ELSE "configured"

CardTypeOK ==
    /\ sd \in {"out", "blank", "good"}
    /\ board \in [powers : Level, switch : BOOLEAN, flaky : BOOLEAN]
    /\ driver \in [claimed : BOOLEAN, volume : BOOLEAN]
    /\ sdMounted \in BOOLEAN /\ cutOff \in BOOLEAN /\ sdCrossed \in BOOLEAN
    /\ power \in [level : Level \cup {"none", "unusable"}, next : Level, proven : BOOLEAN]
    /\ sdFormat \in {"no", "begins", "creates", "erases"}
    /\ sdPage \in {"idle", "verify", "mount"}

CardInit ==
    /\ sd \in {"out", "blank", "good"}
    /\ board \in [powers : Level, switch : BOOLEAN, flaky : BOOLEAN]
    /\ driver = [claimed |-> FALSE, volume |-> FALSE]
    /\ sdMounted = FALSE
    /\ power = [level |-> "none", next |-> "configured", proven |-> FALSE]
    /\ sdFormat = "no" /\ sdPage = "idle"
    /\ cutOff = FALSE /\ sdCrossed = FALSE

-----------------------------------------------------------------------------
\* The switch before an attempt; a pin that cannot be configured is never tried
\* again and leaves the slot to the board's pull-down.
applySlotPower(p) ==
    IF ~board.switch \/ p.level = "unusable" THEN {p}
    ELSE {[p EXCEPT !.level = p.next]}
            \cup (IF p.level = "none" /\ board.flaky THEN {[p EXCEPT !.level = "unusable"]} ELSE {})

\* Without a switch, or with the pin left alone, the slot has its supply.
powered(p) == p.level \in Level => p.level = board.powers

\* Nothing answered: the other level next time, until one has worked.
mountAttempts(p) ==
    IF board.switch /\ ~p.proven THEN [p EXCEPT !.next = Opposite(@)] ELSE p

\* tryMount, 4 bits and then 1: the driver refuses while its controller is
\* claimed, and cleans up after itself when it fails.
tryMount(create) ==
    \E p \in applySlotPower(power) :
        LET answers == ~driver.claimed /\ powered(p) /\ (sd = "good" \/ (sd = "blank" /\ create)) IN
        \/ /\ answers
           /\ driver' = [claimed |-> TRUE, volume |-> TRUE]
           /\ sdMounted' = TRUE
           /\ sd' = "good"
           /\ power' = [p EXCEPT !.proven = TRUE]
        \/ /\ ~answers \/ board.flaky
           /\ power' = mountAttempts(p)
           /\ UNCHANGED <<sd, driver, sdMounted>>

\* esp_vfs_fat_sdcard_unmount, whatever it reports.
released == [claimed |-> FALSE, volume |-> FALSE]

-----------------------------------------------------------------------------
\* The pass of a page, unless a format owns the volumes.
refreshVolumes ==
    /\ sdPage = "idle" /\ sdFormat = "no"
    /\ sdPage' = IF sdMounted THEN "verify" ELSE "mount"
    /\ UNCHANGED <<sd, board, driver, sdMounted, power, sdFormat, cutOff, sdCrossed>>

\* The card is asked twice; silent both times, it is unmounted.
verify ==
    /\ sdPage = "verify"
    /\ sdPage' = "idle"
    /\ LET answers == driver.claimed /\ sd # "out" /\ powered(power) IN
        \/ /\ ~sdMounted \/ answers
           /\ UNCHANGED <<driver, sdMounted>>
        \/ /\ sdMounted /\ (~answers \/ board.flaky)
           /\ driver' = released
           /\ sdMounted' = FALSE
    /\ UNCHANGED <<sd, board, power, sdFormat, cutOff, sdCrossed>>

mount ==
    /\ sdPage = "mount"
    /\ sdPage' = "idle"
    /\ IF sdMounted THEN UNCHANGED <<sd, driver, sdMounted, power>> ELSE tryMount(FALSE)
    /\ UNCHANGED <<board, sdFormat, cutOff, sdCrossed>>

-----------------------------------------------------------------------------
format ==
    /\ sdFormat = "no"
    /\ sdFormat' = IF sdMounted THEN "erases" ELSE "begins"
    /\ cutOff' = FALSE
    /\ sdCrossed' = (sdCrossed \/ sdPage # "idle")
    /\ UNCHANGED <<sd, board, driver, sdMounted, power, sdPage>>

\* Not mounted: a plain mount first, so that a card that has a file system is
\* formatted like any other.
format_Mount ==
    /\ sdFormat = "begins"
    /\ tryMount(FALSE)
    /\ sdFormat' = IF sdMounted' THEN "erases" ELSE "creates"
    /\ UNCHANGED <<board, sdPage, cutOff, sdCrossed>>

mountWithFormat ==
    /\ sdFormat = "creates"
    /\ tryMount(TRUE)
    /\ sdFormat' = "no"
    /\ UNCHANGED <<board, sdPage, cutOff, sdCrossed>>

\* mkfs failed, or the mount after it: the card is given back, by this code or
\* by the driver's own.
format_Failed ==
    /\ sd' \in {sd, IF sd = "out" THEN "out" ELSE "blank"}
    /\ driver' = released
    /\ sdMounted' = FALSE

format_Erase ==
    /\ sdFormat = "erases"
    /\ sdFormat' = "no"
    /\ LET answers == driver.claimed /\ sd # "out" /\ powered(power) /\ ~cutOff IN
        \/ answers /\ sd' = "good" /\ UNCHANGED <<driver, sdMounted>>
        \/ (~answers \/ board.flaky) /\ format_Failed
    /\ UNCHANGED <<board, power, sdPage, cutOff, sdCrossed>>

\* The supply is cut while the format hangs; the state here is left to it.
powerCycle ==
    /\ sdFormat = "erases" /\ board.switch
    /\ \E p \in applySlotPower(power) :
        /\ power' = p
        /\ cutOff' = (cutOff \/ p.level # "unusable")
    /\ UNCHANGED <<sd, board, driver, sdMounted, sdFormat, sdPage, sdCrossed>>

\* A card is put in or pulled out.
cardMoves ==
    /\ sd' \in IF sd = "out" THEN {"blank", "good"} ELSE {"out"}
    /\ UNCHANGED <<board, driver, sdMounted, power, sdFormat, sdPage, cutOff, sdCrossed>>

passStep == refreshVolumes \/ verify \/ mount
formatStep == format_Mount \/ mountWithFormat \/ format_Erase
CardNext == passStep \/ format \/ formatStep \/ powerCycle \/ cardMoves

-----------------------------------------------------------------------------
\* The driver holds the controller, the path and the handle exactly while the
\* device calls the card mounted: one held without the other is a card that
\* cannot be mounted before a restart, or a handle that is gone.  A pass that
\* was under way when a format began is the exception (`formatting_` is looked
\* at once).
DriverFollows ==
    ~sdCrossed => /\ driver.claimed = sdMounted
                  /\ driver.volume = sdMounted

\* A format asked for ends with a file system, a card that had none included,
\* when the bus does not fail, nobody cuts the supply or pulls the card, and the
\* level that powers the slot is known or there is no switch.
FormatRescues ==
    ( /\ sdFormat # "no" /\ sdFormat' = "no"
      /\ ~board.flaky /\ ~sdCrossed /\ ~cutOff /\ sd # "out"
      /\ power.proven \/ ~board.switch
      /\ powered(power) )
    => sdMounted' /\ sd' = "good"

\* A card without a file system is formatted on request: "the volume is mounted
\* **for formatting** here".
BlankIsFormatted ==
    [][( /\ sdFormat = "creates" /\ sdFormat' = "no"
         /\ ~board.flaky /\ ~sdCrossed /\ sd = "blank" /\ board.powers = "configured" )
        => sd' = "good"]_cardVars

\* A card that could be mounted and is not: passes go on and find its level.
CardWaits ==
    /\ sd = "good" /\ ~sdMounted /\ ~board.flaky /\ ~sdCrossed /\ sdFormat = "no"
    /\ board.switch \/ powered(power)
=============================================================================
