---------------------------- MODULE DisplayProofs ----------------------------
(***************************************************************************)
(* Theorems about the screens and buttons of the T-Display, for every      *)
(* cycle of pages, every timeout and every time a row is to be held.       *)
(***************************************************************************)
EXTENDS Display, TLAPS

Shown == {PAGES[i] : i \in DOMAIN PAGES}
Idx(p) == CHOOSE j \in DOMAIN PAGES : PAGES[j] = p

Navs == [page : Shown, menu : BOOLEAN, sel : 0..Back, hold : Unarmed..Longest, saver : BOOLEAN]

InView(x) ==
  /\ x.menu => x.page = System /\ ~x.saver
  /\ x.hold # Unarmed => x.menu /\ x.sel # Back

AtHome(x) == x.saver \/ x.page = Dashboard

-----------------------------------------------------------------------------
(* The cycle of pages, and the sums that bound the counters.                *)

LEMMA CycleFacts ==
  /\ Len(PAGES) \in Nat /\ Len(PAGES) > 1 /\ Shown \subseteq 0..System
  /\ Dashboard \in Shown /\ System \in Shown
  /\ Idx(Dashboard) = 1 /\ Idx(System) = Len(PAGES)
<1>1. /\ Len(PAGES) \in Nat /\ Len(PAGES) > 1 /\ DOMAIN PAGES = 1..Len(PAGES)
      /\ \A i \in DOMAIN PAGES : PAGES[i] \in 0..System
  <2> DEFINE S == 0..System
  <2>1. PAGES \in Seq(S) /\ Len(PAGES) > 1
    BY DisplayAssumption
  <2> HIDE DEF S
  <2>2. /\ Len(PAGES) \in Nat /\ DOMAIN PAGES = 1..Len(PAGES)
        /\ \A i \in DOMAIN PAGES : PAGES[i] \in S
    BY <2>1
  <2> QED  BY <2>1, <2>2 DEF S
<1>2. 1 \in DOMAIN PAGES /\ Len(PAGES) \in DOMAIN PAGES
  BY <1>1
<1>3. PAGES[1] = Dashboard /\ PAGES[Len(PAGES)] = System
  BY DisplayAssumption
<1>4. \A i, j \in DOMAIN PAGES : PAGES[i] = PAGES[j] => i = j
  BY DisplayAssumption
<1>5. Idx(Dashboard) = 1 /\ Idx(System) = Len(PAGES)
  BY <1>2, <1>3, <1>4 DEF Idx
<1> QED  BY <1>1, <1>2, <1>3, <1>5 DEF Shown

LEMMA PageAfterFacts ==
  ASSUME NEW p \in Shown
  PROVE  /\ Idx(p) \in 1..Len(PAGES) /\ PageAfter(p) \in Shown
         /\ Idx(PageAfter(p)) \in {1, Idx(p) + 1}
<1>1. DOMAIN PAGES = 1..Len(PAGES) /\ Len(PAGES) \in Nat /\ Len(PAGES) > 1
  BY DisplayAssumption
<1>2. Idx(p) \in DOMAIN PAGES /\ PAGES[Idx(p)] = p
  BY DEF Shown, Idx
<1> DEFINE k == IF Idx(p) = Len(PAGES) THEN 1 ELSE Idx(p) + 1
<1>3. k \in DOMAIN PAGES /\ k \in {1, Idx(p) + 1}
  BY <1>1, <1>2
<1>4. PageAfter(p) = PAGES[k]
  BY DEF PageAfter, Idx
<1>5. \A j \in DOMAIN PAGES : PAGES[j] = PAGES[k] => j = k
  BY <1>3, DisplayAssumption
<1>6. Idx(PAGES[k]) = k
  <2> HIDE DEF k
  <2> QED  BY <1>3, <1>5 DEF Idx
<1> QED
  <2> HIDE DEF k
  <2> QED  BY <1>1, <1>2, <1>3, <1>4, <1>6 DEF Shown

LEMMA TimesFit ==
  /\ return_timeout \in Nat /\ dim_timeout \in Nat /\ LongAgo \in Nat
  /\ Target[0] \in Nat /\ Target[1] \in Nat /\ Target[2] \in Nat /\ Longest \in Nat
  /\ MaxPresses \in Nat /\ MaxPresses < Len(PAGES)
<1>1. Len(PAGES) \in Nat
  BY DisplayAssumption
<1>2. 0 \in 0..(Back - 1) /\ 1 \in 0..(Back - 1) /\ 2 \in 0..(Back - 1)
  BY DEF Back
<1>3. Target[0] \in Nat /\ Target[1] \in Nat /\ Target[2] \in Nat
  BY <1>2, DisplayAssumption
<1> QED  BY <1>1, <1>3, DisplayAssumption DEF LongAgo, Longest

LEMMA GrownFits ==
  ASSUME NEW limit \in Nat, NEW n \in Unarmed..limit
  PROVE  /\ Grown(n, limit) \in Unarmed..limit
         /\ Grown(n, limit) = Unarmed <=> n = Unarmed
         /\ n \in 0..limit => Grown(n, limit) \in 0..limit
BY DEF Grown, Unarmed

-----------------------------------------------------------------------------
(* What every rung of the ladder keeps: the menu only in view, and a hold   *)
(* that goes on only if the rung has changed nothing.                       *)

Tame(y, x) ==
  /\ y \in Navs /\ InView(y)
  /\ y.hold # Unarmed => y = x
  /\ y.page \in {x.page, Dashboard}
  /\ AtHome(x) => AtHome(y)
  /\ ~x.menu => ~y.menu

LEMMA TameSelf ==
  ASSUME NEW x \in Navs, InView(x)
  PROVE  Tame(x, x)
BY DEF Tame

LEMMA TameTrans ==
  ASSUME NEW x, NEW y, NEW z, Tame(y, x), Tame(z, y)
  PROVE  Tame(z, x)
BY DEF Tame

LEMMA SaverLeftTame ==
  ASSUME NEW x \in Navs, InView(x), ~x.menu
  PROVE  Tame(SaverLeft(x), x) /\ SaverLeft(x).page = Dashboard /\ ~SaverLeft(x).saver
<1>1. Dashboard \in Shown
  BY CycleFacts
<1>2. /\ SaverLeft(x) \in Navs /\ SaverLeft(x).page = Dashboard /\ ~SaverLeft(x).saver
      /\ SaverLeft(x).menu = x.menu /\ SaverLeft(x).hold = x.hold
  BY <1>1 DEF SaverLeft, Navs
<1> QED  BY <1>2 DEF Tame, InView, AtHome

LEMMA ToDashboardTame ==
  ASSUME NEW x \in Navs, InView(x), ~x.menu
  PROVE  /\ Tame(ToDashboard(x), x) /\ ToDashboard(x).page = Dashboard
         /\ ToDashboard(x).saver = x.saver
<1>1. Dashboard \in Shown
  BY CycleFacts
<1>2. /\ ToDashboard(x) \in Navs /\ ToDashboard(x).page = Dashboard
      /\ ToDashboard(x).menu = x.menu /\ ToDashboard(x).hold = x.hold
      /\ ToDashboard(x).saver = x.saver
  BY <1>1 DEF ToDashboard, Navs
<1> QED  BY <1>2 DEF Tame, InView, AtHome

LEMMA MenuClosedTame ==
  ASSUME NEW x \in Navs, InView(x)
  PROVE  /\ Tame(MenuClosed(x), x) /\ ~MenuClosed(x).menu
         /\ MenuClosed(x).page = x.page /\ MenuClosed(x).saver = x.saver
<1>1. CASE x.menu
  <2>1. Unarmed \in Unarmed..Longest
    BY TimesFit DEF Unarmed
  <2>2. /\ MenuClosed(x) \in Navs /\ MenuClosed(x).page = x.page /\ ~MenuClosed(x).menu
        /\ MenuClosed(x).hold = Unarmed /\ MenuClosed(x).saver = x.saver
    BY <1>1, <2>1 DEF MenuClosed, Navs
  <2> QED  BY <2>2 DEF Tame, InView, AtHome
<1>2. CASE ~x.menu
  BY <1>2, TameSelf DEF MenuClosed
<1> QED  BY <1>1, <1>2

LEMMA SetupSwappedTame ==
  ASSUME NEW x \in Navs, InView(x), ~ap_setup_shown /\ SetupKnown => ~x.menu
  PROVE  /\ Tame(SetupSwapped(x), x)
         /\ ap_setup_shown /\ (SetupKnown => x.page = Dashboard) =>
              SetupSwapped(x).page = Dashboard
<1>1. CASE ap_setup_shown /\ ~SetupKnown
  <2> DEFINE y == MenuClosed(x)
  <2>1. Tame(y, x) /\ ~y.menu
    BY MenuClosedTame
  <2>2. Tame(SaverLeft(y), y) /\ SaverLeft(y).page = Dashboard
    <3>1. y \in Navs /\ InView(y)
      BY <2>1 DEF Tame
    <3> HIDE DEF y
    <3> QED  BY <2>1, <3>1, SaverLeftTame
  <2>3. SetupSwapped(x) = SaverLeft(y)
    BY <1>1 DEF SetupSwapped
  <2> HIDE DEF y
  <2> QED  BY <2>1, <2>2, <2>3, TameTrans
<1>2. CASE ~ap_setup_shown /\ SetupKnown
  BY <1>2, ToDashboardTame DEF SetupSwapped
<1>3. CASE ap_setup_shown <=> SetupKnown
  BY <1>3, TameSelf DEF SetupSwapped
<1> QED  BY <1>1, <1>2, <1>3

LEMMA SaverSuppressedTame ==
  ASSUME NEW x \in Navs, InView(x)
  PROVE  Tame(SaverSuppressed(x), x) /\ (keep_lit => ~SaverSuppressed(x).saver)
<1>1. CASE x.saver /\ (keep_lit \/ offline_alert)
  <2>1. ~x.menu
    BY <1>1 DEF InView
  <2> QED  BY <1>1, <2>1, SaverLeftTame DEF SaverSuppressed
<1>2. CASE ~(x.saver /\ (keep_lit \/ offline_alert))
  BY <1>2, TameSelf DEF SaverSuppressed
<1> QED  BY <1>1, <1>2

LEMMA FaultGrabbedTame ==
  ASSUME NEW x \in Navs, InView(x)
  PROVE  /\ Tame(FaultGrabbed(x), x) /\ FaultGrabbed(x).saver = x.saver
         /\ fault_active /\ ~prev_fault /\ ~ap => FaultGrabbed(x).page = Dashboard
<1>1. CASE Grabs(x)
  <2> DEFINE y == MenuClosed(x)
  <2>1. Tame(y, x) /\ ~y.menu /\ y.saver = x.saver
    BY MenuClosedTame
  <2>2. /\ Tame(ToDashboard(y), y) /\ ToDashboard(y).page = Dashboard
        /\ ToDashboard(y).saver = y.saver
    <3>1. y \in Navs /\ InView(y)
      BY <2>1 DEF Tame
    <3> HIDE DEF y
    <3> QED  BY <2>1, <3>1, ToDashboardTame
  <2>3. FaultGrabbed(x) = ToDashboard(y)
    BY <1>1 DEF FaultGrabbed
  <2> HIDE DEF y
  <2> QED  BY <2>1, <2>2, <2>3, TameTrans
<1>2. CASE ~Grabs(x)
  BY <1>2, TameSelf DEF FaultGrabbed, Grabs
<1> QED  BY <1>1, <1>2

LEMMA SaverEnteredTame ==
  ASSUME NEW x \in Navs, InView(x)
  PROVE  /\ Tame(SaverEntered(x), x) /\ SaverEntered(x).page = x.page
         /\ keep_lit => SaverEntered(x).saver = x.saver
<1>1. CASE ~x.saver /\ inact > return_timeout /\ ~keep_lit /\ ~offline_alert
  <2> DEFINE y == MenuClosed(x)
             z == [y EXCEPT !.saver = TRUE]
  <2>1. Tame(y, x) /\ ~y.menu /\ y.page = x.page
    BY MenuClosedTame
  <2>2. /\ z \in Navs /\ z.page = y.page /\ z.saver
        /\ z.menu = y.menu /\ z.hold = y.hold
    <3>1. y \in Navs
      BY <2>1 DEF Tame
    <3> HIDE DEF y
    <3> QED  BY <3>1 DEF Navs
  <2>3. y \in Navs /\ InView(y)
    BY <2>1 DEF Tame
  <2>4. Tame(z, y)
    <3> HIDE DEF y, z
    <3> QED  BY <2>1, <2>2, <2>3 DEF Tame, InView, AtHome
  <2>5. SaverEntered(x) = z
    BY <1>1 DEF SaverEntered
  <2> HIDE DEF y, z
  <2> QED  BY <1>1, <2>1, <2>2, <2>4, <2>5, TameTrans
<1>2. CASE ~(~x.saver /\ inact > return_timeout /\ ~keep_lit /\ ~offline_alert)
  BY <1>2, TameSelf DEF SaverEntered
<1> QED  BY <1>1, <1>2

LEMMA ReturnedTame ==
  ASSUME NEW x \in Navs, InView(x)
  PROVE  /\ Tame(Returned(x), x) /\ Returned(x).saver = x.saver
         /\ inact > return_timeout /\ ~fault_active /\ ~ap => AtHome(Returned(x))
<1>1. CASE inact > return_timeout /\ x.page # Dashboard /\ ~fault_active /\ ~x.saver /\ ~ap
  <2> DEFINE y == MenuClosed(x)
  <2>1. Tame(y, x) /\ ~y.menu /\ y.saver = x.saver
    BY MenuClosedTame
  <2>2. /\ Tame(ToDashboard(y), y) /\ ToDashboard(y).page = Dashboard
        /\ ToDashboard(y).saver = y.saver
    <3>1. y \in Navs /\ InView(y)
      BY <2>1 DEF Tame
    <3> HIDE DEF y
    <3> QED  BY <2>1, <3>1, ToDashboardTame
  <2>3. Returned(x) = ToDashboard(y)
    BY <1>1 DEF Returned
  <2> HIDE DEF y
  <2> QED  BY <2>1, <2>2, <2>3, TameTrans DEF AtHome
<1>2. CASE ~(inact > return_timeout /\ x.page # Dashboard /\ ~fault_active /\ ~x.saver /\ ~ap)
  BY <1>2, TameSelf DEF Returned, AtHome
<1> QED  BY <1>1, <1>2

(* The ladder as a whole.                                                   *)
LEMMA LadderTame ==
  ASSUME NEW x \in Navs, InView(x),
         netwatch_disabled \/ (~ap_setup_shown /\ SetupKnown) => ~x.menu
  PROVE  /\ Tame(Ladder(x), x)
         /\ netwatch_disabled => Ladder(x).page = Dashboard
         /\ ap_setup_shown /\ (SetupKnown => x.page = Dashboard) => Ladder(x).page = Dashboard
         /\ fault_active /\ ~netwatch_disabled =>
              ~Ladder(x).saver /\ (~prev_fault /\ ~ap => Ladder(x).page = Dashboard)
         /\ inact > return_timeout /\ ~keep_lit => AtHome(Ladder(x))
<1>1. CASE netwatch_disabled
  BY <1>1, SaverLeftTame DEF Ladder, keep_lit
<1>2. CASE ~netwatch_disabled
  <2> DEFINE a == SetupSwapped(x)
             b == SaverSuppressed(a)
             c == FaultGrabbed(b)
             d == SaverEntered(c)
             e == Returned(d)
  <2>1. /\ Tame(a, x)
        /\ ap_setup_shown /\ (SetupKnown => x.page = Dashboard) => a.page = Dashboard
    BY <1>2, SetupSwappedTame
  <2>2. Tame(b, a) /\ (keep_lit => ~b.saver)
    <3>1. a \in Navs /\ InView(a)
      BY <2>1 DEF Tame
    <3> HIDE DEF a
    <3> QED  BY <3>1, SaverSuppressedTame
  <2>3. /\ Tame(c, b) /\ c.saver = b.saver
        /\ fault_active /\ ~prev_fault /\ ~ap => c.page = Dashboard
    <3>1. b \in Navs /\ InView(b)
      BY <2>2 DEF Tame
    <3> HIDE DEF b
    <3> QED  BY <3>1, FaultGrabbedTame
  <2>4. Tame(d, c) /\ d.page = c.page /\ (keep_lit => d.saver = c.saver)
    <3>1. c \in Navs /\ InView(c)
      BY <2>3 DEF Tame
    <3> HIDE DEF c
    <3> QED  BY <3>1, SaverEnteredTame
  <2>5. /\ Tame(e, d) /\ e.saver = d.saver
        /\ inact > return_timeout /\ ~fault_active /\ ~ap => AtHome(e)
    <3>1. d \in Navs /\ InView(d)
      BY <2>4 DEF Tame
    <3> HIDE DEF d
    <3> QED  BY <3>1, ReturnedTame
  <2>6. Ladder(x) = e
    BY <1>2 DEF Ladder
  <2>7. fault_active => keep_lit
    BY DEF keep_lit
  <2>8. ~keep_lit => ~fault_active /\ ~ap
    BY DEF keep_lit
  <2> HIDE DEF a, b, c, d, e
  <2>9. Tame(e, x)
    BY <2>1, <2>2, <2>3, <2>4, <2>5, TameTrans
  <2>10. /\ a.page = Dashboard => b.page = Dashboard
         /\ b.page = Dashboard => c.page = Dashboard
         /\ c.page = Dashboard => e.page = Dashboard
    BY <2>2, <2>3, <2>4, <2>5 DEF Tame
  <2> QED
    BY <1>2, <2>1, <2>2, <2>3, <2>4, <2>5, <2>6, <2>7, <2>8, <2>9, <2>10
<1> QED  BY <1>1, <1>2

-----------------------------------------------------------------------------
(* Types.                                                                  *)

DisplayTypes ==
  /\ nav \in Navs
  /\ disp_shown \in {Saver, Setup, Nothing} \cup Shown
  /\ inact \in 0..LongAgo /\ s2 \in Unarmed..Longest /\ presses \in 0..MaxPresses
  /\ boot \in {"splash", "young", "old"} /\ turn \in {"draw", "house", "core"}
  /\ overlay \in {"none", "net", "alert", "fault"}
  /\ backlight_dim \in BOOLEAN /\ setup_freed \in BOOLEAN
  /\ serious_warn_active \in BOOLEAN /\ prev_fault \in BOOLEAN
  /\ netwatch_disabled \in BOOLEAN /\ faultSeen \in BOOLEAN
  /\ ap \in BOOLEAN /\ ap_setup_shown \in BOOLEAN /\ disp_ap_shown \in BOOLEAN
  /\ reboot_due \in BOOLEAN /\ wifi_reset_pending \in BOOLEAN /\ steady \in BOOLEAN

(* Presses since the last housekeeping are too few to open the menu from    *)
(* the dashboard.                                                           *)
Budget == ~nav.menu /\ Idx(nav.page) <= presses + 1

(* While the screen is not the buttons' own - at boot, when the network has *)
(* been given up, at the setup page and until the housekeeping has taken    *)
(* leave of it - the menu is out of reach.                                  *)
OwnedInv ==
  /\ HandsOff => nav.page = Dashboard /\ ~nav.menu /\ ~disp_ap_shown
  /\ netwatch_disabled \/ disp_ap_shown => Budget
  /\ ~netwatch_disabled /\ ~HandsOff /\ turn = "core" => (disp_ap_shown <=> ap_setup_shown)
  /\ ~netwatch_disabled /\ disp_ap_shown /\ ap_setup_shown => nav.page = Dashboard

(* What is held was pressed on the row in view, and the System page is      *)
(* where nav says it is.                                                    *)
HoldInv ==
  /\ nav.hold # Unarmed => steady /\ s2 = nav.hold
  /\ nav.page = System /\ ~nav.saver => disp_shown = System

DisplayInv == DisplayTypes /\ InView(nav) /\ OwnedInv /\ HoldInv

LEMMA StartFacts ==
  /\ Start \in Navs /\ InView(Start) /\ Start.page = Dashboard
  /\ ~Start.menu /\ Start.hold = Unarmed /\ ~Start.saver
<1>1. Unarmed \in Unarmed..Longest /\ 0 \in 0..Back
  BY TimesFit DEF Unarmed, Back
<1> QED  BY <1>1, CycleFacts DEF Start, Navs, InView

(* Whatever the display was at, a restart leads to a good state.            *)
LEMMA BootIsFresh ==
  ASSUME BootsAgain
  PROVE  DisplayInv'
<1>1. DisplayTypes'
  <2>1. 0 \in 0..LongAgo /\ Unarmed \in Unarmed..Longest /\ 0 \in 0..MaxPresses
    BY TimesFit DEF Unarmed
  <2>2. nav' \in Navs /\ inact' \in 0..LongAgo /\ s2' \in Unarmed..Longest /\ presses' \in 0..MaxPresses
    BY <2>1, StartFacts DEF BootsAgain
  <2> QED  BY <2>2 DEF BootsAgain, DisplayTypes
<1>2. OwnedInv'
  <2>1. Idx(Start.page) = 1 /\ presses' = 0 /\ nav' = Start
    BY StartFacts, CycleFacts DEF BootsAgain
  <2> QED  BY <2>1, StartFacts DEF BootsAgain, OwnedInv, Budget, HandsOff
<1>3. HoldInv'
  BY StartFacts DEF BootsAgain, HoldInv, Dashboard, System
<1>4. InView(nav')
  BY StartFacts DEF BootsAgain
<1> QED  BY <1>1, <1>2, <1>3, <1>4 DEF DisplayInv, InView

-----------------------------------------------------------------------------
(* The timers.                                                             *)

LEMMA HouseKeeps ==
  ASSUME DisplayInv, Housekeeping
  PROVE  DisplayInv'
<1> DEFINE y == Ladder(nav)
<1>0. /\ nav \in Navs /\ InView(nav) /\ DisplayTypes
      /\ nav' = y /\ presses' = 0 /\ turn = "house" /\ turn' = "core"
      /\ disp_shown' = Screen(y)
      /\ UNCHANGED <<s2, ap, ap_setup_shown, netwatch_disabled>>
  BY DEF DisplayInv, DisplayTypes, Housekeeping, Loads
<1>1. netwatch_disabled \/ (~ap_setup_shown /\ SetupKnown) => ~nav.menu
  BY DEF DisplayInv, OwnedInv, Budget, SetupKnown
<1>2. /\ Tame(y, nav)
      /\ netwatch_disabled => y.page = Dashboard
      /\ ap_setup_shown /\ (SetupKnown => nav.page = Dashboard) => y.page = Dashboard
  BY <1>0, <1>1, LadderTame
<1>3. y \in Navs /\ InView(y)
  BY <1>2 DEF Tame
<1> HIDE DEF y
<1>4. disp_shown' \in {Saver, Setup, Nothing} \cup Shown
  BY <1>0, <1>3 DEF Screen, Navs
<1>5. DisplayTypes'
  <2>1. presses' \in 0..MaxPresses /\ boot' \in {"splash", "young", "old"}
    BY <1>0, TimesFit DEF DisplayTypes, Housekeeping
  <2>2. /\ backlight_dim' \in BOOLEAN /\ setup_freed' \in BOOLEAN /\ steady' \in BOOLEAN
        /\ prev_fault' \in BOOLEAN /\ disp_ap_shown' \in BOOLEAN /\ faultSeen' \in BOOLEAN
    BY <1>0 DEF DisplayTypes, Housekeeping, Loads, SetupKnown, fault_active, keep_lit, FreesSetup, HandsOff
  <2> QED  BY <1>0, <1>3, <1>4, <2>1, <2>2 DEF DisplayTypes, Housekeeping
<1>6. OwnedInv'
  <2>1. ~HandsOff'
    BY DEF Housekeeping, HandsOff
  <2>2. y.page = Dashboard /\ ~y.menu => Budget'
    BY <1>0, CycleFacts DEF Budget
  <2>3. y.menu => y.page = System
    BY <1>3 DEF InView
  <2>4. y.page = Dashboard => ~y.menu
    BY <2>3 DEF Dashboard, System
  <2>5. ap_setup_shown /\ ~netwatch_disabled => y.page = Dashboard
    BY <1>2 DEF DisplayInv, OwnedInv, SetupKnown
  <2>6. ~netwatch_disabled => disp_ap_shown' = ap_setup_shown
    BY DEF Housekeeping
  <2> QED  BY <1>0, <1>2, <2>1, <2>2, <2>4, <2>5, <2>6 DEF OwnedInv
<1>7. HoldInv'
  <2>1. y.hold # Unarmed => y = nav
    BY <1>2 DEF Tame
  <2>2. nav'.hold # Unarmed => steady' /\ s2' = nav'.hold
    BY <1>0, <2>1 DEF DisplayInv, HoldInv, Housekeeping
  <2>3. ~netwatch_disabled /\ ap_setup_shown => y.page = Dashboard
    BY <1>2 DEF DisplayInv, OwnedInv, SetupKnown
  <2>4. y.page = System => ~ap_setup_shown
    BY <1>2, <2>3 DEF Dashboard, System
  <2>5. y.page = System /\ ~y.saver => disp_shown' = System
    BY <1>0, <2>4 DEF Screen
  <2> QED  BY <1>0, <2>2, <2>5 DEF HoldInv
<1> QED  BY <1>0, <1>3, <1>5, <1>6, <1>7 DEF DisplayInv, InView

LEMMA CoreKeeps ==
  ASSUME DisplayInv, CoreHousekeeping
  PROVE  DisplayInv'
<1>1. CASE BootsAgain
  BY <1>1, BootIsFresh
<1>2. CASE ~BootsAgain
  <2> DEFINE h == Grown(nav.hold, Longest)
  <2>0. /\ turn = "core" /\ turn' = "draw" /\ nav' = [nav EXCEPT !.hold = h]
        /\ s2' = Grown(s2, Longest) /\ inact' = Grown(inact, LongAgo)
        /\ ap_setup_shown' = ap /\ reboot_due' = (reboot_due \/ (ap_setup_shown /\ ~ap))
        /\ UNCHANGED <<disp_shown, backlight_dim, boot, setup_freed, faultVars,
                        ap, disp_ap_shown, wifi_reset_pending, presses, steady>>
    BY <1>2 DEF CoreHousekeeping, TimePasses
  <2>1. nav \in Navs /\ InView(nav) /\ DisplayTypes /\ OwnedInv /\ HoldInv
    BY DEF DisplayInv, DisplayTypes
  <2>2. /\ h \in Unarmed..Longest /\ (h = Unarmed <=> nav.hold = Unarmed)
        /\ s2' \in Unarmed..Longest /\ inact' \in 0..LongAgo
    <3>1. nav.hold \in Unarmed..Longest /\ s2 \in Unarmed..Longest /\ inact \in 0..LongAgo
      BY <2>1 DEF DisplayTypes, Navs
    <3>2. inact \in Unarmed..LongAgo
      BY <3>1, TimesFit DEF Unarmed
    <3> QED  BY <2>0, <3>1, <3>2, TimesFit, GrownFits
  <2>3. s2 = nav.hold => s2' = h
    BY <2>0
  <2> HIDE DEF h
  <2>4. /\ nav' \in Navs /\ nav'.hold = h /\ nav'.page = nav.page /\ nav'.menu = nav.menu
        /\ nav'.sel = nav.sel /\ nav'.saver = nav.saver
    BY <2>0, <2>1, <2>2 DEF Navs
  <2>5. InView(nav)'
    BY <2>1, <2>2, <2>4 DEF InView
  <2>6. DisplayTypes'
    BY <2>0, <2>1, <2>2, <2>4 DEF DisplayTypes, faultVars
  <2>7. HoldInv'
    BY <2>0, <2>1, <2>2, <2>3, <2>4 DEF HoldInv
  <2>8. OwnedInv'
    <3>1. Budget => Budget'
      BY <2>0, <2>4 DEF Budget
    <3>2. HandsOff' <=> HandsOff
      BY <2>0 DEF HandsOff
    <3>3. ~netwatch_disabled /\ disp_ap_shown => ap_setup_shown
      BY <2>0, <2>1 DEF OwnedInv
    <3> QED  BY <2>0, <2>1, <2>4, <3>1, <3>2, <3>3 DEF OwnedInv, faultVars
  <2> QED  BY <2>5, <2>6, <2>7, <2>8 DEF DisplayInv
<1> QED  BY <1>1, <1>2

LEMMA HoldBarKeeps ==
  ASSUME DisplayInv, HoldBar
  PROVE  DisplayInv'
<1>1. CASE BootsAgain
  BY <1>1, BootIsFresh
<1>2. CASE ~BootsAgain
  <2>0. /\ inact' = 0 /\ nav' \in {nav, [nav EXCEPT !.hold = Unarmed]}
        /\ wifi_reset_pending' = (wifi_reset_pending \/ HoldIsDone)
        /\ UNCHANGED <<disp_shown, backlight_dim, boot, setup_freed, faultVars, ap,
                        ap_setup_shown, disp_ap_shown, reboot_due, turn, handVars>>
    BY <1>2 DEF HoldBar
  <2>1. nav \in Navs /\ InView(nav) /\ DisplayTypes /\ OwnedInv /\ HoldInv
    BY DEF DisplayInv, DisplayTypes
  <2>2. Unarmed \in Unarmed..Longest /\ 0 \in 0..LongAgo
    BY TimesFit DEF Unarmed
  <2>3. /\ nav' \in Navs /\ nav'.hold \in {nav.hold, Unarmed} /\ nav'.page = nav.page
        /\ nav'.menu = nav.menu /\ nav'.sel = nav.sel /\ nav'.saver = nav.saver
    BY <2>0, <2>1, <2>2 DEF Navs
  <2>4. InView(nav)'
    BY <2>1, <2>3 DEF InView
  <2>5. DisplayTypes'
    <3>1. HoldIsDone \in BOOLEAN
      BY DEF HoldIsDone
    <3> QED  BY <2>0, <2>1, <2>2, <2>3, <3>1 DEF DisplayTypes, faultVars, handVars
  <2>6. HoldInv'
    BY <2>0, <2>1, <2>3 DEF HoldInv, handVars
  <2>7. OwnedInv'
    BY <2>0, <2>1, <2>3 DEF OwnedInv, Budget, HandsOff, faultVars, handVars
  <2> QED  BY <2>4, <2>5, <2>6, <2>7 DEF DisplayInv
<1> QED  BY <1>1, <1>2

LEMMA OtherTimersKeep ==
  ASSUME DisplayInv, Draw \/ StillSplash \/ ApRises \/ ApFalls \/ FirstMinuteEnds
  PROVE  DisplayInv'
<1>0. nav \in Navs /\ InView(nav) /\ DisplayTypes /\ OwnedInv /\ HoldInv
  BY DEF DisplayInv, DisplayTypes
<1>1. CASE Draw
  <2>1. /\ turn = "draw" /\ turn' = "house"
        /\ UNCHANGED <<nav, disp_shown, inact, boot, setup_freed, prev_fault,
                        netwatch_disabled, latchVars, handVars>>
    BY <1>1 DEF Draw
  <2>2. /\ serious_warn_active' \in BOOLEAN /\ overlay' \in {"none", "net", "alert", "fault"}
        /\ backlight_dim' \in BOOLEAN /\ faultSeen' \in BOOLEAN
    <3>1. PICK c \in Conditions :
            /\ serious_warn_active' = (c = "serious")
            /\ overlay' = IF netwatch_disabled THEN "net"
                          ELSE IF c \in {"alert", "fault"} THEN c ELSE "none"
      BY <1>1 DEF Draw
    <3>2. overlay' \in {"none", "net", "alert", "fault"} /\ serious_warn_active' \in BOOLEAN
      BY <3>1
    <3>3. backlight_dim' \in BOOLEAN
      BY <1>1 DEF Draw
    <3>4. faultSeen' \in BOOLEAN
      <4>1. faultSeen \in BOOLEAN
        BY <1>0 DEF DisplayTypes
      <4>2. \/ faultSeen' = (disp_shown \in {Dashboard, Setup})
            \/ faultSeen' = faultSeen
        BY <1>1 DEF Draw
      <4>3. (disp_shown \in {Dashboard, Setup}) \in BOOLEAN
        OBVIOUS
      <4> QED  BY <4>1, <4>2, <4>3, Zenon
    <3> QED  BY <3>2, <3>3, <3>4
  <2>3. DisplayTypes'
    BY <1>0, <2>1, <2>2 DEF DisplayTypes, latchVars, handVars
  <2>4. OwnedInv'
    BY <1>0, <2>1 DEF OwnedInv, Budget, HandsOff, latchVars, handVars
  <2> QED  BY <1>0, <2>1, <2>3, <2>4 DEF DisplayInv, HoldInv, InView, handVars
<1>2. CASE StillSplash
  <2>1. presses' \in 0..MaxPresses
    BY <1>2, TimesFit DEF StillSplash
  <2>2. DisplayTypes'
    BY <1>0, <1>2, <2>1 DEF StillSplash, DisplayTypes, screenVars, faultVars, latchVars
  <2>3. Budget'
    BY <1>0, <1>2, CycleFacts DEF StillSplash, OwnedInv, Budget, screenVars
  <2>4. OwnedInv'
    BY <1>0, <1>2, <2>3 DEF StillSplash, OwnedInv, HandsOff, screenVars, faultVars, latchVars
  <2> QED  BY <1>0, <1>2, <2>2, <2>4 DEF StillSplash, DisplayInv, HoldInv, InView, screenVars
<1>3. CASE ApRises \/ ApFalls
  <2>1. UNCHANGED <<screenVars, faultVars, ap_setup_shown, disp_ap_shown, reboot_due,
                    wifi_reset_pending, turn, handVars>> /\ ap' \in BOOLEAN
    BY <1>3 DEF ApRises, ApFalls
  <2>2. DisplayTypes'
    BY <1>0, <2>1 DEF DisplayTypes, screenVars, faultVars, handVars
  <2> QED
    BY <1>0, <2>1, <2>2 DEF DisplayInv, OwnedInv, HoldInv, InView, Budget, HandsOff,
       screenVars, faultVars, handVars
<1>4. CASE FirstMinuteEnds
  <2>1. /\ boot = "young" /\ boot' = "old"
        /\ UNCHANGED <<nav, disp_shown, inact, backlight_dim, setup_freed, faultVars,
                        latchVars, turn, handVars>>
    BY <1>4 DEF FirstMinuteEnds
  <2>2. DisplayTypes'
    BY <1>0, <2>1 DEF DisplayTypes, faultVars, latchVars, handVars
  <2> QED
    BY <1>0, <2>1, <2>2 DEF DisplayInv, OwnedInv, HoldInv, InView, Budget, HandsOff,
       faultVars, latchVars, handVars
<1> QED  BY <1>1, <1>2, <1>3, <1>4

-----------------------------------------------------------------------------
(* The buttons.                                                            *)

(* What a press that is acted upon may do: the menu opens only from the     *)
(* last page of the cycle, and a press goes at most one page further.       *)
Sound(y) ==
  /\ y \in Navs /\ InView(y)
  /\ Budget /\ Idx(nav.page) < Len(PAGES) =>
       ~y.menu /\ Idx(y.page) <= Idx(nav.page) + 1

LEMMA S1IsSound ==
  ASSUME DisplayInv, ~nav.saver
  PROVE  Sound(S1(nav)) /\ S1(nav).hold = Unarmed
<1>0. nav \in Navs /\ InView(nav)
  BY DEF DisplayInv, DisplayTypes
<1>1. CASE nav.menu
  <2>1. Unarmed \in Unarmed..Longest /\ RowAfter(nav.sel) \in 0..Back
    BY <1>0, TimesFit DEF Unarmed, RowAfter, Back, Navs
  <2>2. /\ S1(nav) \in Navs /\ S1(nav).hold = Unarmed /\ S1(nav).menu
        /\ S1(nav).page = nav.page /\ S1(nav).saver = nav.saver
    BY <1>0, <1>1, <2>1 DEF S1, Navs
  <2> QED  BY <1>0, <1>1, <2>2 DEF Sound, InView, Budget
<1>2. CASE ~nav.menu
  <2>1. nav.page \in Shown
    BY <1>0 DEF Navs
  <2>2. /\ PageAfter(nav.page) \in Shown /\ Idx(nav.page) \in 1..Len(PAGES)
        /\ Idx(PageAfter(nav.page)) \in {1, Idx(nav.page) + 1}
    BY <2>1, PageAfterFacts
  <2>3. /\ S1(nav) \in Navs /\ S1(nav).hold = nav.hold /\ ~S1(nav).menu
        /\ S1(nav).page = PageAfter(nav.page)
    BY <1>0, <1>2, <2>2 DEF S1, Navs
  <2>4. nav.hold = Unarmed
    BY <1>0, <1>2 DEF InView
  <2>5. Idx(S1(nav).page) <= Idx(nav.page) + 1
    BY <2>2, <2>3, CycleFacts
  <2> QED  BY <2>3, <2>4, <2>5 DEF Sound, InView
<1> QED  BY <1>1, <1>2

LEMMA S2IsSound ==
  ASSUME DisplayInv, ~nav.saver, nav.hold = Unarmed
  PROVE  Sound(S2(nav)) /\ (S2(nav).hold # Unarmed => S2(nav) = [nav EXCEPT !.hold = 0])
<1>0. nav \in Navs /\ InView(nav)
  BY DEF DisplayInv, DisplayTypes
<1>1. Unarmed \in Unarmed..Longest /\ 0 \in Unarmed..Longest /\ 0 \in 0..Back
  BY TimesFit DEF Unarmed, Back
<1>2. CASE nav.menu /\ nav.sel = Back
  <2>1. /\ S2(nav) \in Navs /\ ~S2(nav).menu /\ S2(nav).hold = Unarmed
        /\ S2(nav).page = nav.page
    BY <1>0, <1>1, <1>2 DEF S2, Navs
  <2> QED  BY <1>2, <2>1 DEF Sound, InView, Budget
<1>3. CASE nav.menu /\ nav.sel # Back
  <2>1. /\ S2(nav) \in Navs /\ S2(nav).menu /\ S2(nav).sel = nav.sel
        /\ S2(nav).page = nav.page /\ S2(nav).saver = nav.saver
        /\ S2(nav) = [nav EXCEPT !.hold = 0]
    BY <1>0, <1>1, <1>3 DEF S2, Navs
  <2> QED  BY <1>0, <1>3, <2>1 DEF Sound, InView, Budget
<1>4. CASE ~nav.menu /\ nav.page = System
  <2>1. /\ S2(nav) \in Navs /\ S2(nav).menu /\ S2(nav).hold = nav.hold
        /\ S2(nav).page = nav.page /\ S2(nav).saver = nav.saver
    BY <1>0, <1>1, <1>4 DEF S2, Navs
  <2>2. Idx(nav.page) = Len(PAGES) /\ Len(PAGES) \in Nat
    BY <1>4, CycleFacts
  <2>3. ~(Idx(nav.page) < Len(PAGES))
    BY <2>2
  <2> QED  BY <1>4, <2>1, <2>3 DEF Sound, InView
<1>5. CASE ~nav.menu /\ nav.page # System
  <2>1. S2(nav) = nav
    BY <1>5 DEF S2
  <2>2. Idx(nav.page) <= Idx(nav.page) + 1
    <3>1. nav.page \in Shown
      BY <1>0 DEF Navs
    <3>2. Idx(nav.page) \in 1..Len(PAGES) /\ Len(PAGES) \in Nat
      BY <3>1, PageAfterFacts, CycleFacts
    <3> QED  BY <3>2
  <2> QED  BY <1>0, <1>5, <2>1, <2>2 DEF Sound
<1> QED  BY <1>2, <1>3, <1>4, <1>5

(* What both buttons have in common.                                        *)
LEMMA PressKeeps ==
  ASSUME DisplayInv, NEW act, Press(act),
         ~Swallowed /\ ~backlight_dim /\ ~nav.saver => Sound(act),
         s2' \in Unarmed..Longest, steady' \in BOOLEAN,
         nav'.hold # Unarmed => steady' /\ s2' = nav'.hold
  PROVE  DisplayInv'
<1>0. /\ nav \in Navs /\ InView(nav) /\ DisplayTypes /\ OwnedInv /\ HoldInv
      /\ presses < MaxPresses /\ presses' = presses + 1 /\ inact' = 0
      /\ backlight_dim' = (backlight_dim /\ Swallowed)
      /\ UNCHANGED <<boot, setup_freed, overlay, serious_warn_active, prev_fault,
                      netwatch_disabled, latchVars, turn>>
  BY DEF DisplayInv, DisplayTypes, Press
<1>1. /\ Idx(nav.page) \in 1..Len(PAGES) /\ Len(PAGES) \in Nat /\ Len(PAGES) > 1
      /\ presses \in Nat /\ MaxPresses \in Nat /\ MaxPresses < Len(PAGES)
  <2>1. nav.page \in Shown
    BY <1>0 DEF Navs
  <2>2. presses \in 0..MaxPresses
    BY <1>0 DEF DisplayTypes
  <2>3. Idx(nav.page) \in 1..Len(PAGES)
    BY <2>1, PageAfterFacts
  <2>4. Len(PAGES) \in Nat /\ Len(PAGES) > 1
    BY CycleFacts
  <2>5. MaxPresses \in Nat /\ MaxPresses < Len(PAGES)
    BY TimesFit
  <2>6. presses \in Nat
    BY <2>2, <2>5
  <2> QED  BY <2>3, <2>4, <2>5, <2>6
<1>2. Sound(nav)
  BY <1>0, <1>1 DEF Sound, Budget
<1>3. nav.saver => Sound(SaverLeft(nav))
  <2>1. nav.saver => ~nav.menu
    BY <1>0 DEF InView
  <2>2. nav.saver => Tame(SaverLeft(nav), nav) /\ SaverLeft(nav).page = Dashboard
    BY <1>0, <2>1, SaverLeftTame
  <2>3. 1 <= Idx(nav.page) + 1
    BY <1>1
  <2> QED  BY <2>1, <2>2, <2>3, CycleFacts DEF Sound, Tame
<1>4. Sound(nav') /\ (Swallowed => nav' = nav)
  BY <1>2, <1>3 DEF Press
<1>5. nav' \in Navs /\ InView(nav')
  BY <1>4 DEF Sound
<1>6. /\ disp_shown' \in {disp_shown, Screen(nav')}
      /\ nav'.page = nav.page /\ nav'.saver = nav.saver => disp_shown' = disp_shown
      /\ ~(nav'.page = nav.page /\ nav'.saver = nav.saver) => disp_shown' = Screen(nav')
      /\ faultSeen' \in BOOLEAN
  BY <1>0 DEF Press, Loads, DisplayTypes
<1>7. DisplayTypes'
  <2>1. Screen(nav') \in {Saver, Setup, Nothing} \cup Shown
    BY <1>5 DEF Screen, Navs
  <2>2. disp_shown' \in {Saver, Setup, Nothing} \cup Shown
    BY <1>0, <1>6, <2>1 DEF DisplayTypes
  <2>3. presses' \in 0..MaxPresses /\ inact' \in 0..LongAgo
    BY <1>0, <1>1, TimesFit
  <2>4. backlight_dim' \in BOOLEAN
    BY <1>0 DEF Swallowed, DisplayTypes
  <2> QED  BY <1>0, <1>5, <1>6, <2>2, <2>3, <2>4 DEF DisplayTypes, latchVars
<1>8. OwnedInv'
  <2>1. Budget => Budget'
    <3> SUFFICES ASSUME Budget PROVE Budget'
      OBVIOUS
    <3>1. Idx(nav.page) <= presses + 1
      BY DEF Budget
    <3>2. Idx(nav.page) < Len(PAGES)
      BY <1>0, <1>1, <3>1
    <3>3. ~nav'.menu /\ Idx(nav'.page) <= Idx(nav.page) + 1
      BY <1>4, <3>2 DEF Sound
    <3>4. Idx(nav'.page) \in 1..Len(PAGES)
      BY <1>5, PageAfterFacts DEF Navs
    <3>5. Idx(nav'.page) <= presses' + 1
      BY <1>0, <1>1, <3>1, <3>3, <3>4
    <3> QED  BY <3>3, <3>5 DEF Budget
  <2>2. HandsOff \/ ap_setup_shown => nav' = nav
    BY <1>4 DEF Swallowed
  <2> QED  BY <1>0, <2>1, <2>2 DEF OwnedInv, HandsOff, latchVars
<1>9. HoldInv'
  <2>1. nav'.page = System /\ ~nav'.saver => disp_shown' = System
    <3>1. CASE nav'.page = nav.page /\ nav'.saver = nav.saver
      BY <1>0, <1>6, <3>1 DEF HoldInv
    <3>2. CASE ~(nav'.page = nav.page /\ nav'.saver = nav.saver)
      <4>1. ~ap_setup_shown
        BY <1>4, <3>2 DEF Swallowed
      <4> QED  BY <1>6, <3>2, <4>1 DEF Screen
    <3> QED  BY <3>1, <3>2
  <2> QED  BY <2>1 DEF HoldInv
<1> QED  BY <1>5, <1>7, <1>8, <1>9 DEF DisplayInv, InView

LEMMA ButtonsKeep ==
  ASSUME DisplayInv, PressS1 \/ PressS2 \/ ReleaseS2
  PROVE  DisplayInv'
<1>0. nav \in Navs /\ InView(nav) /\ DisplayTypes /\ OwnedInv /\ HoldInv
  BY DEF DisplayInv, DisplayTypes
<1>a. nav.saver => SaverLeft(nav).hold = Unarmed
  BY <1>0 DEF InView, SaverLeft, Navs
<1>1. CASE PressS1
  <2>1. Press(S1(nav)) /\ steady' = (steady /\ Seen(nav') = Seen(nav)) /\ s2' = s2
    BY <1>1 DEF PressS1
  <2>2. nav'.hold # Unarmed => nav' = nav
    BY <1>0, <1>a, <2>1, S1IsSound DEF Press
  <2>3. nav'.hold # Unarmed => steady' /\ s2' = nav'.hold
    BY <1>0, <2>1, <2>2 DEF HoldInv
  <2>4. s2' \in Unarmed..Longest /\ steady' \in BOOLEAN
    BY <1>0, <2>1 DEF DisplayTypes
  <2> QED  BY <2>1, <2>3, <2>4, S1IsSound, PressKeeps
<1>2. CASE PressS2
  <2>1. Press(S2(nav)) /\ steady' = (Seen(nav') = Seen(nav)) /\ s2' = 0 /\ s2 = Unarmed
    BY <1>2 DEF PressS2
  <2>2. nav.hold = Unarmed
    BY <1>0, <2>1 DEF HoldInv
  <2>3. nav'.hold # Unarmed => nav' = [nav EXCEPT !.hold = 0]
    BY <1>a, <2>1, <2>2, S2IsSound DEF Press
  <2>4. nav'.hold # Unarmed => steady' /\ s2' = nav'.hold
    BY <1>0, <2>1, <2>3 DEF Seen, Navs
  <2>5. s2' \in Unarmed..Longest /\ steady' \in BOOLEAN
    BY <2>1, TimesFit DEF Unarmed
  <2> QED  BY <2>1, <2>2, <2>4, <2>5, S2IsSound, PressKeeps
<1>3. CASE ReleaseS2
  <2>1. /\ s2' = Unarmed /\ steady' = FALSE
        /\ nav' = IF nav.menu /\ nav.sel # Back THEN [nav EXCEPT !.hold = Unarmed] ELSE nav
        /\ UNCHANGED <<disp_shown, inact, backlight_dim, boot, setup_freed, faultVars,
                        latchVars, turn, presses>>
    BY <1>3 DEF ReleaseS2
  <2>2. Unarmed \in Unarmed..Longest
    BY TimesFit DEF Unarmed
  <2>3. /\ nav' \in Navs /\ nav'.page = nav.page /\ nav'.menu = nav.menu
        /\ nav'.sel = nav.sel /\ nav'.saver = nav.saver /\ nav'.hold = Unarmed
    BY <1>0, <2>1, <2>2 DEF Navs, InView
  <2>4. DisplayTypes'
    <3>1. s2' \in Unarmed..Longest /\ steady' \in BOOLEAN
      BY <2>1, <2>2
    <3> QED  BY <1>0, <2>1, <2>3, <3>1 DEF DisplayTypes, faultVars, latchVars
  <2>5. OwnedInv'
    BY <1>0, <2>1, <2>3 DEF OwnedInv, Budget, HandsOff, faultVars, latchVars
  <2>6. HoldInv' /\ InView(nav)'
    BY <1>0, <2>1, <2>3 DEF HoldInv, InView
  <2> QED  BY <2>4, <2>5, <2>6 DEF DisplayInv
<1> QED  BY <1>1, <1>2, <1>3

-----------------------------------------------------------------------------
(* Type correctness, and the menu.                                          *)

LEMMA DisplayInvStarts == DisplayInit => DisplayInv
<1> SUFFICES ASSUME DisplayInit PROVE DisplayInv
  OBVIOUS
<1>1. 0 \in 0..LongAgo /\ Unarmed \in Unarmed..Longest /\ 0 \in 0..MaxPresses
  BY TimesFit DEF Unarmed
<1>2. nav \in Navs /\ inact \in 0..LongAgo /\ s2 \in Unarmed..Longest /\ presses \in 0..MaxPresses
  BY <1>1, StartFacts DEF DisplayInit
<1>3. DisplayTypes
  BY <1>2 DEF DisplayInit, DisplayTypes
<1>4. OwnedInv
  <2>1. Idx(Start.page) = 1 /\ presses = 0 /\ nav = Start
    BY StartFacts, CycleFacts DEF DisplayInit
  <2> QED  BY <2>1, StartFacts DEF DisplayInit, OwnedInv, Budget, HandsOff
<1>5. HoldInv /\ InView(nav)
  BY StartFacts DEF DisplayInit, HoldInv, Dashboard, System
<1> QED  BY <1>3, <1>4, <1>5 DEF DisplayInv

LEMMA DisplayInvHolds == DisplaySpec => []DisplayInv
<1>1. DisplayInv /\ [DisplayNext]_displayVars => DisplayInv'
  <2>1. CASE UNCHANGED displayVars
    BY <2>1 DEF DisplayInv, DisplayTypes, InView, OwnedInv, HoldInv, Budget, HandsOff,
       displayVars, screenVars, faultVars, latchVars, handVars
  <2>2. CASE DisplayInv /\ DisplayNext
    BY <2>2, HouseKeeps, CoreKeeps, HoldBarKeeps, OtherTimersKeep, ButtonsKeep DEF DisplayNext
  <2> QED  BY <2>1, <2>2
<1> QED  BY <1>1, DisplayInvStarts, PTL DEF DisplaySpec

(* For every cycle of pages and all timeouts: types hold, and the highlight *)
(* stays on one of the four rows.                                           *)
THEOREM HighlightIsOnARow == DisplaySpec => []DisplayTypeOK
<1>1. DisplayInv => DisplayTypeOK
  BY DEF DisplayInv, DisplayTypes, DisplayTypeOK, Navs, Shown
<1> QED  BY <1>1, DisplayInvHolds, PTL

(* For every cycle of pages: the menu is open only where it is seen, as     *)
(* long as nobody presses often enough in half a second to walk through the *)
(* whole cycle into it.                                                     *)
THEOREM MenuStaysInView == DisplaySpec => []MenuIsInView
<1>1. DisplayInv => MenuIsInView
  BY DEF DisplayInv, InView, MenuIsInView
<1> QED  BY <1>1, DisplayInvHolds, PTL

(* For all hold times: a system action takes S2 held down all the time that *)
(* its row asks for, on the row in view, with nothing changing meanwhile.   *)
THEOREM ActionsAreDeliberate == DisplaySpec => HoldIsDeliberate
<1>1. DisplayInv /\ [DisplayNext]_displayVars =>
        [HoldBar /\ HoldIsDone =>
           steady /\ s2 >= Target[nav.sel] /\ disp_shown = System]_displayVars
  <2> SUFFICES ASSUME DisplayInv, HoldBar, HoldIsDone
               PROVE  steady /\ s2 >= Target[nav.sel] /\ disp_shown = System
    OBVIOUS
  <2>1. nav.menu /\ nav.hold # Unarmed /\ nav.hold >= Target[nav.sel]
    BY DEF HoldIsDone, HoldGoesOn
  <2>2. steady /\ s2 = nav.hold
    BY <2>1 DEF DisplayInv, HoldInv
  <2>3. disp_shown = System
    BY <2>1 DEF DisplayInv, HoldInv, InView
  <2> QED  BY <2>1, <2>2, <2>3
<1> QED  BY <1>1, DisplayInvHolds, PTL DEF DisplaySpec, HoldIsDeliberate

-----------------------------------------------------------------------------
(* The fault that is shown.                                                *)

FaultInv ==
  /\ HandsOff \/ netwatch_disabled => ~prev_fault
  /\ ~HandsOff /\ ~netwatch_disabled /\ turn # "house" => (prev_fault <=> fault_active)
  /\ prev_fault /\ (~ap \/ disp_ap_shown) => faultSeen

LEMMA FaultStep ==
  ASSUME DisplayInv, FaultInv, DisplayNext
  PROVE  FaultInv'
<1>0. nav \in Navs /\ InView(nav) /\ DisplayTypes /\ OwnedInv
  BY DEF DisplayInv, DisplayTypes
<1>1. CASE BootsAgain
  BY <1>1 DEF BootsAgain, FaultInv, HandsOff
<1>2. CASE Draw
  <2>1. /\ turn = "draw" /\ turn' = "house"
        /\ UNCHANGED <<prev_fault, netwatch_disabled, boot, ap, disp_ap_shown>>
    BY <1>2 DEF Draw, latchVars
  <2>2. fault_active => faultSeen' = faultSeen
    BY <1>2 DEF Draw
  <2>3. prev_fault => fault_active
    BY <2>1 DEF FaultInv
  <2> QED  BY <2>1, <2>2, <2>3 DEF FaultInv, HandsOff
<1>3. CASE StillSplash
  BY <1>3 DEF StillSplash, FaultInv, HandsOff, screenVars, faultVars, latchVars
<1>4. CASE Housekeeping
  <2> DEFINE y == Ladder(nav)
  <2>1. /\ turn = "house" /\ turn' = "core" /\ ~HandsOff' /\ nav' = y
        /\ disp_ap_shown' = IF netwatch_disabled THEN SetupKnown ELSE ap_setup_shown
        /\ prev_fault' = IF netwatch_disabled THEN prev_fault ELSE fault_active
        /\ disp_shown' = Screen(y)
        /\ faultSeen' = (faultSeen \/ disp_shown' \in {Dashboard, Setup})
        /\ UNCHANGED <<ap, overlay, netwatch_disabled>>
    BY <1>4 DEF Housekeeping, Loads, HandsOff
  <2>2. netwatch_disabled \/ (~ap_setup_shown /\ SetupKnown) => ~nav.menu
    BY <1>0 DEF OwnedInv, Budget, SetupKnown
  <2>3. fault_active /\ ~netwatch_disabled =>
          ~y.saver /\ (~prev_fault /\ ~ap => y.page = Dashboard)
    BY <1>0, <2>2, LadderTame
  <2> HIDE DEF y
  <2>4. CASE netwatch_disabled
    BY <2>1, <2>4 DEF FaultInv
  <2>5. CASE ~netwatch_disabled
    <3>1. fault_active' <=> fault_active
      BY <2>1 DEF fault_active
    <3>2. ASSUME fault_active, ~ap \/ ap_setup_shown
          PROVE  faultSeen'
      <4>1. CASE ap_setup_shown
        BY <2>1, <2>3, <2>5, <3>2, <4>1 DEF Screen
      <4>2. CASE ~ap_setup_shown /\ prev_fault
        BY <2>1, <3>2, <4>2 DEF FaultInv
      <4>3. CASE ~ap_setup_shown /\ ~prev_fault
        BY <2>1, <2>3, <2>5, <3>2, <4>3 DEF Screen
      <4> QED  BY <4>1, <4>2, <4>3
    <3> QED  BY <2>1, <2>5, <3>1, <3>2 DEF FaultInv
  <2> QED  BY <2>4, <2>5
<1>5. CASE CoreHousekeeping /\ ~BootsAgain
  <2>1. /\ turn = "core" /\ turn' = "draw"
        /\ UNCHANGED <<faultVars, boot, ap, disp_ap_shown>>
    BY <1>5 DEF CoreHousekeeping
  <2> QED  BY <2>1 DEF FaultInv, HandsOff, fault_active, faultVars
<1>6. CASE HoldBar /\ ~BootsAgain
  BY <1>6 DEF HoldBar, FaultInv, HandsOff, fault_active, faultVars
<1>7. CASE PressS1 \/ PressS2
  <2>1. UNCHANGED <<boot, overlay, prev_fault, netwatch_disabled, latchVars, turn>>
    BY <1>7 DEF PressS1, PressS2, Press
  <2>2. faultSeen => faultSeen'
    BY <1>7 DEF PressS1, PressS2, Press, Loads
  <2> QED  BY <2>1, <2>2 DEF FaultInv, HandsOff, fault_active, latchVars
<1>8. CASE ReleaseS2 \/ ApRises \/ FirstMinuteEnds
  BY <1>8 DEF ReleaseS2, ApRises, FirstMinuteEnds, FaultInv, HandsOff, fault_active,
     faultVars, latchVars, screenVars
<1>9. CASE ApFalls
  <2>1. prev_fault => disp_ap_shown
    BY <1>9 DEF ApFalls, FaultInv
  <2> QED  BY <1>9, <2>1 DEF ApFalls, FaultInv, HandsOff, fault_active, faultVars, screenVars
<1> QED
  BY <1>1, <1>2, <1>3, <1>4, <1>5, <1>6, <1>7, <1>8, <1>9 DEF DisplayNext

(* For every cycle of pages and all timeouts: a fault that was taken note   *)
(* of has been on the screen, whatever page, menu or saver it interrupted.  *)
THEOREM FaultsAreShown == DisplaySpec => []FaultWasShown
<1>1. DisplayInit => FaultInv
  BY DEF DisplayInit, FaultInv, HandsOff, fault_active
<1>2. DisplayInv /\ FaultInv /\ [DisplayNext]_displayVars => FaultInv'
  <2>1. CASE UNCHANGED displayVars
    BY <2>1 DEF FaultInv, HandsOff, fault_active, displayVars, screenVars, faultVars, latchVars
  <2>2. CASE DisplayInv /\ FaultInv /\ DisplayNext
    BY <2>2, FaultStep
  <2> QED  BY <2>1, <2>2
<1>3. FaultInv => FaultWasShown
  BY DEF FaultInv, FaultWasShown
<1> QED  BY <1>1, <1>2, <1>3, DisplayInvHolds, PTL DEF DisplaySpec

-----------------------------------------------------------------------------
(* The setup screen that is freed, and the dimmed screen.                  *)

FreedInv ==
  setup_freed => boot = "old" /\ ~ap /\ ~ap_setup_shown /\ disp_shown # Setup

DimInv == backlight_dim => AtHome(nav)

LEMMA ScreenIsAPage ==
  ASSUME NEW x \in Navs, ~ap_setup_shown
  PROVE  Screen(x) # Setup
<1>1. x.page \in 0..System
  BY CycleFacts DEF Navs
<1> QED  BY <1>1 DEF Screen, Saver, Setup, System

LEMMA FreedStep ==
  ASSUME DisplayInv, FreedInv, DisplayNext
  PROVE  FreedInv'
<1>0. nav \in Navs /\ DisplayTypes
  BY DEF DisplayInv, DisplayTypes
<1>a. nav' \in Navs
  BY HouseKeeps, CoreKeeps, HoldBarKeeps, OtherTimersKeep, ButtonsKeep
     DEF DisplayNext, DisplayInv, DisplayTypes
<1>1. CASE BootsAgain
  BY <1>1 DEF BootsAgain, FreedInv
<1>2. CASE Housekeeping
  <2>1. /\ setup_freed' = (setup_freed \/ FreesSetup) /\ disp_shown' = Screen(nav')
        /\ boot' = (IF HandsOff THEN "young" ELSE boot) /\ UNCHANGED <<ap, ap_setup_shown>>
    BY <1>2 DEF Housekeeping, Loads
  <2>2. setup_freed' => boot = "old" /\ ~ap /\ ~ap_setup_shown
    BY <2>1 DEF FreedInv, FreesSetup
  <2>3. ~ap_setup_shown => disp_shown' # Setup
    <3>1. ASSUME NEW x \in Navs, ~ap_setup_shown PROVE Screen(x) # Setup
      BY <3>1, ScreenIsAPage
    <3> QED  BY <1>a, <2>1, <3>1
  <2> QED  BY <2>1, <2>2, <2>3 DEF FreedInv, HandsOff
<1>3. CASE PressS1 \/ PressS2
  <2>1. disp_shown' \in {disp_shown, Screen(nav')} /\ UNCHANGED <<boot, setup_freed, latchVars>>
    BY <1>3 DEF PressS1, PressS2, Press, Loads
  <2>2. ~ap_setup_shown => Screen(nav') # Setup
    <3>1. ASSUME NEW x \in Navs, ~ap_setup_shown PROVE Screen(x) # Setup
      BY <3>1, ScreenIsAPage
    <3> QED  BY <1>a, <3>1
  <2> QED  BY <2>1, <2>2 DEF FreedInv, latchVars
<1>4. CASE CoreHousekeeping /\ ~BootsAgain
  BY <1>4 DEF CoreHousekeeping, FreedInv
<1>5. CASE ApRises
  BY <1>5 DEF ApRises, FreedInv, screenVars
<1>6. CASE ApFalls
  BY <1>6 DEF ApFalls, FreedInv, screenVars
<1>7. CASE HoldBar /\ ~BootsAgain
  BY <1>7 DEF HoldBar, FreedInv
<1>8. CASE Draw \/ StillSplash \/ ReleaseS2 \/ FirstMinuteEnds
  BY <1>8 DEF Draw, StillSplash, ReleaseS2, FirstMinuteEnds, FreedInv, latchVars, screenVars
<1> QED  BY <1>1, <1>2, <1>3, <1>4, <1>5, <1>6, <1>7, <1>8 DEF DisplayNext

(* For every cycle of pages: no housekeeping and no press loads the setup   *)
(* screen after it was deleted.                                             *)
THEOREM FreedStaysAway == DisplaySpec => []FreedIsNotLoaded
<1>1. DisplayInit => FreedInv
  BY DEF DisplayInit, FreedInv
<1>2. DisplayInv /\ FreedInv /\ [DisplayNext]_displayVars => FreedInv'
  <2>1. CASE UNCHANGED displayVars
    BY <2>1 DEF FreedInv, displayVars, screenVars, latchVars
  <2>2. CASE DisplayInv /\ FreedInv /\ DisplayNext
    BY <2>2, FreedStep
  <2> QED  BY <2>1, <2>2
<1>3. FreedInv => FreedIsNotLoaded
  BY DEF FreedInv, FreedIsNotLoaded
<1> QED  BY <1>1, <1>2, <1>3, DisplayInvHolds, PTL DEF DisplaySpec

LEMMA DimStep ==
  ASSUME DisplayInv, DimInv, DisplayNext
  PROVE  DimInv'
<1>0. nav \in Navs /\ InView(nav) /\ DisplayTypes /\ OwnedInv
  BY DEF DisplayInv, DisplayTypes
<1>1. CASE BootsAgain
  BY <1>1 DEF BootsAgain, DimInv
<1>2. CASE Housekeeping
  <2>1. /\ nav' = Ladder(nav)
        /\ backlight_dim' = (~keep_lit /\ (backlight_dim \/ inact > DimAfter))
    BY <1>2 DEF Housekeeping
  <2>2. netwatch_disabled \/ (~ap_setup_shown /\ SetupKnown) => ~nav.menu
    BY <1>0 DEF OwnedInv, Budget, SetupKnown
  <2>3. /\ Tame(Ladder(nav), nav)
        /\ inact > return_timeout /\ ~keep_lit => AtHome(Ladder(nav))
    BY <1>0, <2>2, LadderTame
  <2>4. inact > DimAfter => inact > return_timeout
    <3>1. inact \in Nat /\ return_timeout \in Nat /\ dim_timeout \in Nat
      BY <1>0, TimesFit DEF DisplayTypes
    <3> QED  BY <3>1 DEF DimAfter
  <2>5. backlight_dim' => AtHome(Ladder(nav))
    BY <2>1, <2>3, <2>4 DEF DimInv, Tame
  <2> QED  BY <2>1, <2>5 DEF DimInv, AtHome
<1>3. CASE PressS1 \/ PressS2
  <2>1. backlight_dim' => backlight_dim /\ nav' = nav
    BY <1>3 DEF PressS1, PressS2, Press
  <2> QED  BY <2>1 DEF DimInv, AtHome
<1>4. CASE (CoreHousekeeping \/ HoldBar \/ ReleaseS2) /\ ~BootsAgain
  <2>1. \E h \in {nav.hold, Unarmed, Grown(nav.hold, Longest)} : nav' = [nav EXCEPT !.hold = h]
    BY <1>0, <1>4 DEF CoreHousekeeping, TimePasses, HoldBar, ReleaseS2, Navs
  <2>2. nav'.page = nav.page /\ nav'.saver = nav.saver
    BY <1>0, <2>1 DEF Navs
  <2>3. backlight_dim' = backlight_dim
    BY <1>4 DEF CoreHousekeeping, HoldBar, ReleaseS2
  <2> QED  BY <2>2, <2>3 DEF DimInv, AtHome
<1>5. CASE Draw
  <2>1. nav' = nav /\ (backlight_dim' => backlight_dim)
    BY <1>5 DEF Draw
  <2> QED  BY <2>1 DEF DimInv, AtHome
<1>6. CASE StillSplash \/ ApRises \/ ApFalls \/ FirstMinuteEnds
  BY <1>6 DEF StillSplash, ApRises, ApFalls, FirstMinuteEnds, DimInv, AtHome, screenVars
<1> QED  BY <1>1, <1>2, <1>3, <1>4, <1>5, <1>6 DEF DisplayNext

(* For all timeouts, whichever of the two is the longer: a dimmed screen    *)
(* shows the dashboard or the saver, so that the press that only wakes it   *)
(* is not one somebody meant for a page.                                    *)
THEOREM DimIsAtHome == DisplaySpec => []DimsOnlyAtHome
<1>1. DisplayInit => DimInv
  BY DEF DisplayInit, DimInv
<1>2. DisplayInv /\ DimInv /\ [DisplayNext]_displayVars => DimInv'
  <2>1. CASE UNCHANGED displayVars
    BY <2>1 DEF DimInv, AtHome, displayVars, screenVars
  <2>2. CASE DisplayInv /\ DimInv /\ DisplayNext
    BY <2>2, DimStep
  <2> QED  BY <2>1, <2>2
<1>3. DimInv => DimsOnlyAtHome
  BY DEF DimInv, AtHome, DimsOnlyAtHome
<1> QED  BY <1>1, <1>2, <1>3, DisplayInvHolds, PTL DEF DisplaySpec
=============================================================================
