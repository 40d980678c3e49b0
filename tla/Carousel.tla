------------------------------ MODULE Carousel ------------------------------
(***************************************************************************)
(* The carousel of the component library (components/ui/carousel.tsx): the *)
(* component around an Embla instance, which exists while the viewport is  *)
(* mounted, and its two buttons.                                           *)
(***************************************************************************)
EXTENDS Naturals

CONSTANT MaxSlides   \* bound on the slides

ASSUME CarouselAssumption == MaxSlides \in Nat \ {0}

VARIABLES
    embla,     \* the Embla instance: exists, slides, at (1..slides), loop
    handlers,  \* the events of it that onSelect is registered for
    can,       \* canScrollPrev and canScrollNext
    given,     \* setApi is passed; the parent holds the live instance
    axis       \* the orientation given ("none" without one) and opts.axis

carouselVars == <<embla, handlers, can, given, axis>>

-----------------------------------------------------------------------------
(* Embla: where it can scroll to, and what it tells.                       *)

CanPrev(e) == e.slides > 1 /\ (e.loop \/ e.at > 1)
CanNext(e) == e.slides > 1 /\ (e.loop \/ e.at < e.slides)

Next1(e) ==
    [e EXCEPT !.at = CASE e.at < e.slides -> e.at + 1
                       [] e.at = e.slides /\ e.loop -> 1
                       [] OTHER -> e.at]
Prev1(e) ==
    [e EXCEPT !.at = CASE e.at > 1 -> e.at - 1
                       [] e.at = 1 /\ e.loop -> e.slides
                       [] OTHER -> e.at]

\* The component's handler for both events.
onSelect(e) == [prev |-> CanPrev(e), next |-> CanNext(e)]

\* Embla changes and emits an event: a registered onSelect is called.
Emit(event, e) ==
    /\ embla' = e
    /\ can' = IF event \in handlers THEN onSelect(e) ELSE can
    /\ UNCHANGED <<handlers, given, axis>>

-----------------------------------------------------------------------------
(* The component.                                                          *)

EffectWithoutReInit(e) ==       \* mutant: only "select" is listened for
    /\ can' = onSelect(e)
    /\ handlers' = {"select"}

\* The effect on a new api.
SubscribeEffect(e) ==
    /\ can' = onSelect(e)
    /\ handlers' = {"reInit", "select"}

\* The effect that hands the api to the parent.
SetApiEffect == given' = [given EXCEPT !.live = given.setApi]

\* useEmblaCarousel has an instance: the viewport is mounted.
MountViewport(slides) ==
    /\ ~embla.exists
    /\ LET e == [embla EXCEPT !.exists = TRUE, !.slides = slides, !.at = 1]
       IN  embla' = e /\ SubscribeEffect(e)
    /\ SetApiEffect
    /\ UNCHANGED axis

\* The viewport goes: the instance is destroyed with its handlers, the effects
\* find no api; the parent is not told.
UnmountViewport ==
    /\ embla.exists
    /\ embla' = [embla EXCEPT !.exists = FALSE]
    /\ handlers' = {}
    /\ given' = [given EXCEPT !.live = FALSE]
    /\ UNCHANGED <<can, axis>>

scrollPrev == IF embla.exists THEN Emit("select", Prev1(embla)) ELSE UNCHANGED carouselVars
scrollNext == IF embla.exists THEN Emit("select", Next1(embla)) ELSE UNCHANGED carouselVars

\* CarouselPrevious and CarouselNext: disabled unless the state says otherwise.
ClickPrevious == can.prev /\ scrollPrev
ClickNext == can.next /\ scrollNext

\* handleKeyDown: the left and right arrows, in either orientation and also
\* where the buttons are disabled.
KeyDown == scrollPrev \/ scrollNext

\* A drag, or the parent with its api, to any slide.
ScrollTo(i) ==
    /\ embla.exists /\ i \in 1..embla.slides /\ i # embla.at
    /\ Emit("select", [embla EXCEPT !.at = i])

\* Slides are added or removed, or the options change: Embla starts again.
ReInit(slides, loop) ==
    /\ embla.exists
    /\ Emit("reInit", [embla EXCEPT !.slides = slides, !.loop = loop,
                          !.at = IF embla.at > slides THEN slides ELSE embla.at])

-----------------------------------------------------------------------------
(* What is drawn.                                                          *)

\* orientation defaults to horizontal: the fall-back to opts.axis is never
\* reached, and Embla's axis is the orientation's.
Orientation == IF axis.orientation = "none" THEN "horizontal" ELSE axis.orientation
EmblaAxis == IF Orientation = "horizontal" THEN "x" ELSE "y"

\* The direction the content and the items are laid out in.
ContentAxis == IF Orientation = "horizontal" THEN "x" ELSE "y"
ItemAxis == IF Orientation = "horizontal" THEN "x" ELSE "y"

CarouselInit ==
    /\ embla \in [exists : {FALSE}, slides : {1}, at : {1}, loop : BOOLEAN]
    /\ handlers = {}
    /\ can = [prev |-> FALSE, next |-> FALSE]
    /\ given \in [setApi : BOOLEAN, live : {FALSE}]
    /\ axis \in [orientation : {"none", "horizontal", "vertical"}, opts : {"x", "y"}]

CarouselNext ==
    \/ \E n \in 1..MaxSlides : MountViewport(n)
    \/ UnmountViewport
    \/ ClickPrevious
    \/ ClickNext
    \/ KeyDown
    \/ \E i \in 1..MaxSlides : ScrollTo(i)
    \/ \E n \in 1..MaxSlides, loop \in BOOLEAN : ReInit(n, loop)

-----------------------------------------------------------------------------
(* Properties.                                                             *)

\* The buttons tell the truth: with an instance, a button is enabled exactly
\* when its click moves the carousel, whatever the keyboard, a drag, the parent
\* or a change of the slides did since; the parent that asked for the api has
\* the live one, and the slides are laid out along the axis Embla scrolls.
ButtonsTellTheTruth ==
    embla.exists =>
        /\ can.prev = (Prev1(embla) # embla)
        /\ can.next = (Next1(embla) # embla)
        /\ given.live = given.setApi
        /\ {ContentAxis, ItemAxis} = {EmblaAxis}

=============================================================================
