---------------------------- MODULE MCCameraHandler ----------------------------
EXTENDS CameraHandler

\* The application opens the camera, makes it work, then lets go of it: release() calls
\* close(), which calls stopPreview(), which stops the recording.
MCScript == <<{"open"}, {"start", "record"}, {"start", "record", "still"}, {"open", "stopPreview", "release"}>>
===============================================================================
