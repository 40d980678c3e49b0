----------------------------- MODULE MCWidgets -----------------------------
\* Logs of two entries and four events, one toast shown at a time out of two
\* with two components that listen, a carousel of up to three slides.
EXTENDS Widgets

=============================================================================
