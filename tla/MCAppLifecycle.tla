--------------------------- MODULE MCAppLifecycle ---------------------------
\* AppLifecycle for TLC: an app that navigates, one that binds Services across
\* screens, one that starts and binds them, and one that is stopped.
EXTENDS AppLifecycle

MCApps ==
    { {"startActivity", "startActivityForResult", "finish", "recreate", "setResult"},
      {"startActivity", "finish", "bindService", "unbindService"},
      {"startService", "stopService", "stopSelfResult", "bindService"},
      {"startActivity", "startService", "recreate", "launch", "stop"} }
=============================================================================
