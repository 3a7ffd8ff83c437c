------------------------------ MODULE Display ------------------------------
(***************************************************************************)
(* The screens of the T-Display and its two buttons.  Three 500 ms         *)
(* intervals and a 200 ms one share a handful of globals with the button   *)
(* handlers, all on loopTask: the draw turns the charger's condition into  *)
(* an overlay, the housekeeping decides which screen is up and whether it  *)
(* is dimmed, the core's housekeeping latches the setup access point, and  *)
(* the hold bar fires the system action whose row S2 is held on.           *)
(***************************************************************************)
EXTENDS Integers, Sequences

CONSTANTS
  PAGES,           (* S1's cycle: the dashboard first, System last         *)
  return_timeout, dim_timeout,   (* in half seconds                        *)
  Target,          (* how long each row of the menu is to be held          *)
  MaxPresses       (* presses a person can make in half a second           *)

Dashboard == 0
System == 5
Saver == -3                   (* disp_shown, as the other two              *)
Setup == -2
Nothing == -1
Back == 3                     (* the row of the menu that leaves it        *)
Unarmed == -1                 (* s2_hold_ms = 0                            *)

ASSUME DisplayAssumption ==
  /\ PAGES \in Seq(0..System) /\ Len(PAGES) > 1
  /\ PAGES[1] = Dashboard /\ PAGES[Len(PAGES)] = System
  /\ \A i, j \in DOMAIN PAGES : PAGES[i] = PAGES[j] => i = j
  /\ return_timeout \in Nat /\ dim_timeout \in Nat
  /\ Target \in [0..(Back - 1) -> Nat \ {0}]
  /\ MaxPresses \in 0..(Len(PAGES) - 1)

VARIABLES
  nav,         (* current_page, in_menu, menu_sel, s2_hold_ms as the time  *)
               (* since it was set, saver_active                           *)
  disp_shown,
  inact,       (* time since last_activity_ms                              *)
  backlight_dim,
  boot,        (* splash_active, then the first minute, then after it      *)
  setup_freed,
  overlay,     (* ov_prev; fault_active and offline_alert follow it        *)
  serious_warn_active,
  prev_fault,
  netwatch_disabled,
  ap,          (* is_ap_active()                                           *)
  ap_setup_shown, disp_ap_shown,
  reboot_due,  (* post_onboard_reboot_at is set                            *)
  wifi_reset_pending,
  turn,        (* whose 500 ms interval is next                            *)
  presses,     (* since the last housekeeping                              *)
  (* Only for the properties:                                              *)
  s2,          (* how long S2 has been down, Unarmed if it is not          *)
  steady,      (* and nothing on the screen has changed meanwhile          *)
  faultSeen    (* a screen that tells of this fault has been up            *)

latchVars == <<ap, ap_setup_shown, disp_ap_shown, reboot_due, wifi_reset_pending>>
faultVars == <<overlay, serious_warn_active, prev_fault, netwatch_disabled, faultSeen>>
screenVars == <<nav, disp_shown, inact, backlight_dim, boot, setup_freed>>
handVars == <<presses, s2, steady>>
displayVars == <<screenVars, faultVars, latchVars, turn, handVars>>

Start == [page |-> Dashboard, menu |-> FALSE, sel |-> 0, hold |-> Unarmed, saver |-> FALSE]

DisplayInit ==
  /\ nav = Start /\ disp_shown = Nothing /\ inact = 0 /\ backlight_dim = FALSE
  /\ boot = "splash" /\ setup_freed = FALSE
  /\ overlay = "none" /\ serious_warn_active = FALSE /\ prev_fault = FALSE
  /\ netwatch_disabled \in BOOLEAN /\ faultSeen = FALSE
  /\ ap \in BOOLEAN /\ ap_setup_shown = FALSE /\ disp_ap_shown = FALSE
  /\ reboot_due = FALSE /\ wifi_reset_pending = FALSE
  /\ turn = "draw" /\ presses = 0 /\ s2 = Unarmed /\ steady = FALSE

(* All of it is RAM; the buttons are taken to be released.                  *)
BootsAgain ==
  /\ nav' = Start /\ disp_shown' = Nothing /\ inact' = 0 /\ backlight_dim' = FALSE
  /\ boot' = "splash" /\ setup_freed' = FALSE
  /\ overlay' = "none" /\ serious_warn_active' = FALSE /\ prev_fault' = FALSE
  /\ netwatch_disabled' \in BOOLEAN /\ faultSeen' = FALSE
  /\ ap' \in BOOLEAN /\ ap_setup_shown' = FALSE /\ disp_ap_shown' = FALSE
  /\ reboot_due' = FALSE /\ wifi_reset_pending' = FALSE
  /\ turn' = "draw" /\ presses' = 0 /\ s2' = Unarmed /\ steady' = FALSE

fault_active == overlay = "fault"
offline_alert == overlay = "alert"
keep_lit == fault_active \/ serious_warn_active \/ ap \/ netwatch_disabled

LongAgo == return_timeout + dim_timeout + 1
Grown(n, limit) == IF n \in 0..(limit - 1) THEN n + 1 ELSE n
Longest == Target[0] + Target[1] + Target[2]

Seen(x) == <<x.page, x.menu, x.sel, x.saver>>

(* wd_load_screen                                                           *)
Screen(x) == IF x.saver THEN Saver ELSE IF ap_setup_shown THEN Setup ELSE x.page
Loads ==
  /\ disp_shown' = Screen(nav')
  /\ faultSeen' = (faultSeen \/ disp_shown' \in {Dashboard, Setup})

-----------------------------------------------------------------------------
(* The draw: netfault, then the first phase of offline, then a fault.       *)

Conditions == {"fine", "serious", "alert", "fault"}

Draw ==
  /\ turn = "draw" /\ turn' = "house"
  /\ \E c \in Conditions :
       /\ serious_warn_active' = (c = "serious")
       /\ overlay' = IF netwatch_disabled THEN "net"
                     ELSE IF c \in {"alert", "fault"} THEN c ELSE "none"
  /\ backlight_dim' = (backlight_dim /\ (overlay' = overlay \/ overlay' \notin {"net", "fault"}))
  /\ faultSeen' = IF overlay' = "fault" /\ ~fault_active THEN disp_shown \in {Dashboard, Setup}
                  ELSE faultSeen
  /\ UNCHANGED <<nav, disp_shown, inact, boot, setup_freed, prev_fault, netwatch_disabled,
                 latchVars, handVars>>

-----------------------------------------------------------------------------
(* The display's housekeeping, one operator for each rung of its ladder.    *)

MenuClosed(x) == IF x.menu THEN [x EXCEPT !.menu = FALSE, !.hold = Unarmed] ELSE x
ToDashboard(x) == [x EXCEPT !.page = Dashboard]
SaverLeft(x) == [x EXCEPT !.saver = FALSE, !.page = Dashboard]

HandsOff == boot = "splash"
SetupKnown == disp_ap_shown \/ (HandsOff /\ ap)

SetupSwapped(x) ==
  IF ap_setup_shown /\ ~SetupKnown THEN SaverLeft(MenuClosed(x))
  ELSE IF ~ap_setup_shown /\ SetupKnown THEN ToDashboard(x) ELSE x

SaverSuppressed(x) == IF x.saver /\ (keep_lit \/ offline_alert) THEN SaverLeft(x) ELSE x

Grabs(x) == fault_active /\ ~prev_fault /\ ~ap /\ x.page # Dashboard

GrabbedUnlessBusy(x) == IF Grabs(x) /\ ~x.menu THEN ToDashboard(x) ELSE x     \* mutant
GrabbedOnly(x) == IF Grabs(x) THEN ToDashboard(x) ELSE x                      \* mutant
FaultGrabbed(x) == IF Grabs(x) THEN ToDashboard(MenuClosed(x)) ELSE x

SaverEntered(x) ==
  IF ~x.saver /\ inact > return_timeout /\ ~keep_lit /\ ~offline_alert
  THEN [MenuClosed(x) EXCEPT !.saver = TRUE] ELSE x

Returned(x) ==
  IF inact > return_timeout /\ x.page # Dashboard /\ ~fault_active /\ ~x.saver /\ ~ap
  THEN ToDashboard(MenuClosed(x)) ELSE x

Ladder(x) ==
  IF netwatch_disabled THEN SaverLeft(x)
  ELSE Returned(SaverEntered(FaultGrabbed(SaverSuppressed(SetupSwapped(x)))))

DimAfter == IF dim_timeout > return_timeout THEN dim_timeout ELSE return_timeout

FreesOnLatch == boot = "old" /\ ~ap_setup_shown                       \* mutant
FreesSetup == boot = "old" /\ ~ap_setup_shown /\ ~ap

StillSplash ==
  /\ turn = "house" /\ HandsOff
  /\ turn' = "core" /\ presses' = 0
  /\ UNCHANGED <<screenVars, faultVars, latchVars, s2, steady>>

Housekeeping ==
  /\ turn = "house" /\ turn' = "core" /\ presses' = 0
  /\ boot' = IF HandsOff THEN "young" ELSE boot
  /\ nav' = Ladder(nav)
  /\ disp_ap_shown' = IF netwatch_disabled THEN SetupKnown ELSE ap_setup_shown
  /\ prev_fault' = IF netwatch_disabled THEN prev_fault ELSE fault_active
  /\ Loads
  /\ backlight_dim' = (~keep_lit /\ (backlight_dim \/ inact > DimAfter))
  /\ setup_freed' = (setup_freed \/ FreesSetup)
  /\ steady' = (steady /\ Seen(nav') = Seen(nav))
  /\ UNCHANGED <<inact, overlay, serious_warn_active, netwatch_disabled,
                 ap, ap_setup_shown, reboot_due, wifi_reset_pending, s2>>

(* The core's housekeeping, where half a second is counted.                 *)
TimePasses ==
  /\ inact' = Grown(inact, LongAgo)
  /\ nav' = [nav EXCEPT !.hold = Grown(@, Longest)]
  /\ s2' = Grown(s2, Longest)

CoreHousekeeping ==
  \/ /\ turn = "core" /\ ~wifi_reset_pending /\ turn' = "draw"
     /\ ap_setup_shown' = ap
     /\ reboot_due' = (reboot_due \/ (ap_setup_shown /\ ~ap))
     /\ TimePasses
     /\ UNCHANGED <<disp_shown, backlight_dim, boot, setup_freed, faultVars,
                    ap, disp_ap_shown, wifi_reset_pending, presses, steady>>
  \/ turn = "core" /\ (wifi_reset_pending \/ reboot_due) /\ BootsAgain

(* The 200 ms interval. Reset WiFi only raises a flag.                      *)
HoldGoesOn == nav.menu /\ nav.sel # Back /\ nav.hold # Unarmed
HoldIsDone == HoldGoesOn /\ nav.hold >= Target[nav.sel]

HoldBar ==
  \/ /\ HoldGoesOn /\ (HoldIsDone => nav.sel = 1)
     /\ inact' = 0
     /\ nav' = IF HoldIsDone THEN [nav EXCEPT !.hold = Unarmed] ELSE nav
     /\ wifi_reset_pending' = (wifi_reset_pending \/ HoldIsDone)
     /\ UNCHANGED <<disp_shown, backlight_dim, boot, setup_freed, faultVars, ap,
                    ap_setup_shown, disp_ap_shown, reboot_due, turn, handVars>>
  \/ HoldIsDone /\ nav.sel # 1 /\ BootsAgain

-----------------------------------------------------------------------------
(* The buttons, behind their 30 ms filter.                                  *)

Swallowed == HandsOff \/ ap_setup_shown

PageAfter(p) ==
  LET i == CHOOSE j \in DOMAIN PAGES : PAGES[j] = p
  IN  PAGES[IF i = Len(PAGES) THEN 1 ELSE i + 1]

RowAfter(n) == (n + 1) % (Back + 1)

S1Carries(x) ==                                                       \* mutant
  IF x.menu THEN [x EXCEPT !.sel = RowAfter(@)] ELSE [x EXCEPT !.page = PageAfter(@)]

S1(x) ==
  IF x.menu THEN [x EXCEPT !.sel = RowAfter(@), !.hold = Unarmed]
  ELSE [x EXCEPT !.page = PageAfter(@)]

S2(x) ==
  IF x.menu
  THEN IF x.sel = Back THEN [x EXCEPT !.menu = FALSE, !.hold = Unarmed]
       ELSE [x EXCEPT !.hold = 0]
  ELSE IF x.page = System THEN [x EXCEPT !.menu = TRUE, !.sel = 0] ELSE x

(* A press on a dimmed screen only wakes it, one on the screensaver leaves. *)
Press(acts) ==
  /\ presses < MaxPresses /\ presses' = presses + 1
  /\ inact' = 0
  /\ backlight_dim' = (backlight_dim /\ Swallowed)
  /\ nav' = IF Swallowed \/ backlight_dim THEN nav
            ELSE IF nav.saver THEN SaverLeft(nav) ELSE acts
  /\ IF nav'.page = nav.page /\ nav'.saver = nav.saver
     THEN UNCHANGED <<disp_shown, faultSeen>> ELSE Loads
  /\ UNCHANGED <<boot, setup_freed, overlay, serious_warn_active, prev_fault,
                 netwatch_disabled, latchVars, turn>>

PressS1 ==
  /\ Press(S1(nav))
  /\ steady' = (steady /\ Seen(nav') = Seen(nav))
  /\ UNCHANGED s2

PressS2 ==
  /\ s2 = Unarmed /\ s2' = 0
  /\ Press(S2(nav))
  /\ steady' = (Seen(nav') = Seen(nav))

ReleaseS2 ==
  /\ s2 # Unarmed /\ s2' = Unarmed
  /\ nav' = IF nav.menu /\ nav.sel # Back THEN [nav EXCEPT !.hold = Unarmed] ELSE nav
  /\ steady' = FALSE
  /\ UNCHANGED <<disp_shown, inact, backlight_dim, boot, setup_freed, faultVars,
                 latchVars, turn, presses>>

-----------------------------------------------------------------------------
(* Wi-Fi and the clock. Without credentials the access point comes up while *)
(* Wi-Fi starts, and ap_timeout 0 keeps it from coming up later; it goes    *)
(* when somebody has joined it and entered some.                            *)
ApRises ==
  /\ ~ap /\ boot # "old" /\ ~reboot_due
  /\ ap' = TRUE
  /\ UNCHANGED <<screenVars, faultVars, ap_setup_shown, disp_ap_shown, reboot_due,
                 wifi_reset_pending, turn, handVars>>

ApFalls ==
  /\ ap /\ ap_setup_shown /\ (disp_ap_shown \/ netwatch_disabled)
  /\ ap' = FALSE
  /\ UNCHANGED <<screenVars, faultVars, ap_setup_shown, disp_ap_shown, reboot_due,
                 wifi_reset_pending, turn, handVars>>

FirstMinuteEnds ==
  /\ boot = "young" /\ boot' = "old"
  /\ UNCHANGED <<nav, disp_shown, inact, backlight_dim, setup_freed, faultVars,
                 latchVars, turn, handVars>>

-----------------------------------------------------------------------------
DisplayNext ==
  \/ Draw \/ StillSplash \/ Housekeeping \/ CoreHousekeeping \/ HoldBar
  \/ PressS1 \/ PressS2 \/ ReleaseS2
  \/ ApRises \/ ApFalls \/ FirstMinuteEnds

DisplaySpec == DisplayInit /\ [][DisplayNext]_displayVars

-----------------------------------------------------------------------------
(* Properties.                                                              *)

(* Types; the highlight stays on one of the four rows.                      *)
DisplayTypeOK ==
  /\ nav \in [page : {PAGES[i] : i \in DOMAIN PAGES}, menu : BOOLEAN, sel : 0..Back,
              hold : Unarmed..Longest, saver : BOOLEAN]
  /\ disp_shown \in {Saver, Setup, Nothing} \cup {PAGES[i] : i \in DOMAIN PAGES}
  /\ inact \in 0..LongAgo /\ s2 \in Unarmed..Longest /\ presses \in 0..MaxPresses
  /\ boot \in {"splash", "young", "old"} /\ turn \in {"draw", "house", "core"}
  /\ overlay \in {"none", "net", "alert", "fault"}
  /\ {backlight_dim, setup_freed, serious_warn_active, prev_fault, netwatch_disabled, ap,
      ap_setup_shown, disp_ap_shown, reboot_due, wifi_reset_pending, steady, faultSeen}
       \subseteq BOOLEAN

(* The menu is open only on the System page and never behind the saver, so  *)
(* that S1 does not move a highlight, nor S2 arm a row, that nobody sees:   *)
(* every way off the page closes it, whoever takes it.                      *)
MenuIsInView ==
  /\ nav.menu => nav.page = System /\ ~nav.saver
  /\ nav.hold # Unarmed => nav.menu /\ nav.sel # Back

(* A system action fires only if S2 has been down for the time its row asks *)
(* for, with that row in view and nothing else having happened on screen.   *)
HoldIsDeliberate ==
  [][HoldBar /\ HoldIsDone =>
       steady /\ s2 >= Target[nav.sel] /\ disp_shown = System]_displayVars

(* A fault that the housekeeping has taken note of has been on screen, on   *)
(* whatever page, menu or saver it found the display.                       *)
FaultWasShown == prev_fault /\ ~ap => faultSeen

(* The screen dims only on the dashboard or the saver, in whatever order    *)
(* the two timeouts are set.                                                *)
DimsOnlyAtHome == backlight_dim => nav.saver \/ nav.page = Dashboard

(* The setup screen is not loaded after it was deleted.                     *)
FreedIsNotLoaded == disp_shown = Setup => ~setup_freed
=============================================================================
