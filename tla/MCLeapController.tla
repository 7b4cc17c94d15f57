--------------------------- MODULE MCLeapController ---------------------------
\* Two threads of the application and a listener; two devices; a history
\* of two and four frame ids, so that things fall off.  A scene mixes what can
\* interact: notification with registration and the end, images with the end,
\* the histories, the policies, the configuration requests.
EXTENDS LeapControllerSpec

MCSession == {"Connection", "ConnectionLost"}
MCScenes == {MCSession \cup s : s \in
    {{"Listen", "Device", "DeviceLost", "DeviceStatusChange"},
     {"Listen", "Drop", "DeviceFailure", "LogEvent", "LogEvents", "HeadPose"},
     {"Image", "Drop"},
     {"Tracking", "Image", "PointMappingChange"},
     {"Policy"},
     {"ConfigResponse", "Config"}}}

\* The service stays; the last device is unplugged.
MCUnplug == {{"Connection", "Listen", "Device", "DeviceLost"}}
=============================================================================
