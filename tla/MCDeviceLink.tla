----------------------------- MODULE MCDeviceLink -----------------------------
(* One monitor and two devices; the damaged device writes headers with an     *)
(* impossible length and truncated frames.                                     *)
EXTENDS DeviceLink

MCDamages == {<<kMagicHigh, kMagicLow, 1>>,
              <<kMagicHigh, kMagicLow, kMaxFrameSize>>}

\* A second frame of telemetry ends with a magic, a second heartbeat with half of one.
MCContents ==
    [sequence \in 0..MaxSequence |->
        [k \in 1..kMaxFrameSize |->
            IF sequence # 1 THEN 0 ELSE IF k = 4 THEN kMagicHigh ELSE kMagicLow]]
=============================================================================
