SPECIFICATION Spec
INVARIANTS ReleaseIsRead RequestsAreConstrained CoverSizeIsItsFrames
TracksAreSettled ViterbiIsBest SpanIsExact ClickIsDrawn ClaimsAreEarned
CHECK_DEADLOCK FALSE
