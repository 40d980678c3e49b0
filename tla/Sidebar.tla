------------------------------ MODULE Sidebar ------------------------------
(***************************************************************************)
(* The sidebar of the component library (components/ui/sidebar.tsx) with   *)
(* useIsMobile (hooks/use-mobile.ts) and the sheet it opens on a narrow    *)
(* window (components/ui/sheet.tsx).  Its owner may control it (an open    *)
(* prop, an onOpenChange callback, or both) or leave it to itself.         *)
(***************************************************************************)
EXTENDS Naturals

CONSTANT Unset   \* no open prop, no cookie, or a width not measured yet

VARIABLES
    owner,       \* what the provider is given: handler (an onOpenChange), prop
                 \* (the open prop, Unset without one), defaultOpen
    collapsible, \* "offcanvas", "icon" or "none"
    narrow,      \* the window is narrower than MOBILE_BREAKPOINT
    mobile,      \* isMobile of the hook
    ownOpen,     \* _open
    openMobile,
    cookie       \* sidebar_state

sidebarVars == <<owner, collapsible, narrow, mobile, ownOpen, openMobile, cookie>>

-----------------------------------------------------------------------------
(* Derived state of the provider.                                          *)

\* useIsMobile: unmeasured counts as not mobile.
isMobile == mobile = TRUE

open == IF owner.prop # Unset THEN owner.prop ELSE ownOpen
state == IF open THEN "expanded" ELSE "collapsed"

Uncontrolled == owner.prop = Unset /\ ~owner.handler

\* Where the sidebar is drawn: in the page, or as a sheet over it, or, in the
\* page of a narrow window, hidden by its style ("hidden md:block").
Presentation ==
    CASE collapsible = "none"                           -> "page"
      [] collapsible # "none" /\ isMobile               -> "sheet"
      [] collapsible # "none" /\ ~isMobile /\ ~narrow   -> "page"
      [] OTHER                                          -> "hidden"

\* The sheet's content is rendered while it is open.
SheetShown == Presentation = "sheet" /\ openMobile

\* data-collapsible: set while collapsed, and only by a sidebar in the page
\* that is not of the fixed kind.
Collapsible ==
    IF Presentation = "page" /\ collapsible # "none" /\ state = "collapsed"
    THEN collapsible ELSE ""

\* The menu is in view: an off-canvas sidebar has slid out.
MenuInView == (Presentation = "page" /\ Collapsible # "offcanvas") \/ SheetShown

-----------------------------------------------------------------------------
(* The provider's operations.                                              *)

\* setOpen: the owner's callback, which may change the prop or not, else the
\* own state; then the cookie.
SetOpen(value) ==
    /\ IF owner.handler
       THEN /\ \E adopts \in BOOLEAN :
                  owner' = IF adopts /\ owner.prop # Unset THEN [owner EXCEPT !.prop = value]
                           ELSE owner
            /\ UNCHANGED ownOpen
       ELSE ownOpen' = value /\ UNCHANGED owner
    /\ cookie' = value

ToggleDesktopOnly ==            \* mutant: isMobile not asked
    /\ SetOpen(~open)
    /\ UNCHANGED <<openMobile, collapsible, narrow, mobile>>

\* toggleSidebar.
ToggleSidebar ==
    /\ IF isMobile
       THEN openMobile' = ~openMobile /\ UNCHANGED <<owner, ownOpen, cookie>>
       ELSE SetOpen(~open) /\ UNCHANGED openMobile
    /\ UNCHANGED <<collapsible, narrow, mobile>>

\* SidebarTrigger: its own onClick, then the toggle.
Trigger == ToggleSidebar

\* SidebarRail, inside the sidebar: from the small breakpoint on, which is
\* below MOBILE_BREAKPOINT, so also inside the sheet.
Rail == (Presentation = "page" \/ SheetShown) /\ ToggleSidebar

\* handleKeyDown: Ctrl or Cmd with b, anywhere in the window.
Shortcut == ToggleSidebar

\* setOpen and setOpenMobile from the context, called by what is in the menu.
SetOpenFromMenu ==
    /\ MenuInView
    /\ \E value \in BOOLEAN : SetOpen(value)
    /\ UNCHANGED <<openMobile, collapsible, narrow, mobile>>

\* The sheet's overlay, Escape or its close button (hidden by the sidebar's
\* style): onOpenChange(false), setOpenMobile.
CloseSheet ==
    /\ SheetShown
    /\ openMobile' = FALSE
    /\ UNCHANGED <<owner, collapsible, narrow, mobile, ownOpen, cookie>>

-----------------------------------------------------------------------------
(* The window.                                                             *)

\* useIsMobile's effect after the first render.
Measure ==
    /\ mobile = Unset
    /\ mobile' = narrow
    /\ UNCHANGED <<owner, collapsible, narrow, ownOpen, openMobile, cookie>>

\* The media query changes: its listener, once registered, sets the state.
Resize ==
    /\ narrow' = ~narrow
    /\ mobile' = IF mobile = Unset THEN Unset ELSE ~narrow
    /\ UNCHANGED <<owner, collapsible, ownOpen, openMobile, cookie>>

\* The page is loaded again: the browser keeps the cookie, nothing reads it.
Remount ==
    /\ mobile' = Unset
    /\ ownOpen' = owner.defaultOpen /\ openMobile' = FALSE
    /\ UNCHANGED <<owner, collapsible, narrow, cookie>>

SidebarInit ==
    /\ owner \in [handler : BOOLEAN, prop : {Unset} \cup BOOLEAN, defaultOpen : BOOLEAN]
    /\ collapsible \in {"offcanvas", "icon", "none"}
    /\ narrow \in BOOLEAN
    /\ mobile = Unset
    /\ ownOpen = owner.defaultOpen
    /\ openMobile = FALSE
    /\ cookie = Unset

SidebarNext ==
    \/ Trigger
    \/ Rail
    \/ Shortcut
    \/ SetOpenFromMenu
    \/ CloseSheet
    \/ Measure
    \/ Resize
    \/ Remount

-----------------------------------------------------------------------------
(* Properties.                                                             *)

\* A toggle of a sidebar left to itself changes what is on the screen: the
\* sheet on a narrow window, the page's sidebar on a wide one, once the window
\* has been measured.
ToggleIsSeen ==
    [][Trigger /\ Uncontrolled /\ mobile # Unset /\ collapsible # "none" =>
          (IF narrow THEN SheetShown' # SheetShown ELSE open' # open)]_sidebarVars

=============================================================================
