---------------------------- MODULE MCSinkTimer -----------------------------
EXTENDS SinkTimer

\* Every duration the clamp of set_timer_ticks() lets through.
MCDurations == {1, 3, TopBit - 1}
=============================================================================
