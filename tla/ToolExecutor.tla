---------------------------- MODULE ToolExecutor ----------------------------
(***************************************************************************)
(* Where a tool call goes: src/main/project-files/tool-executor.ts.  Every *)
(* handler first asks permission for its capability, if it has one; a      *)
(* handler that works in a page then asks the browser whether this run     *)
(* controls it (resolveAgentBrowserTarget).  A record is what one handler  *)
(* asks for; what it then does is in the module of the component it calls. *)
(***************************************************************************)
EXTENDS CapabilityRegistry

\* needs: the capabilities, one of which is checked (which one depends on the
\* call).  target: whether control of the browser is checked.
handler(tools, needs, target) == [tool : tools, needs : {needs}, target : {target}]

nothing == {NoCapability}

ReadHandlers == handler({"list_directory", "read_file", "read_file_range"}, {"project.read"}, FALSE)

SearchHandlers == handler({"search_files", "search_code"}, nothing, FALSE)

RunCommandHandler ==
  handler({"run_command"}, UNION {terminalRiskToCapability(r) : r \in CommandRiskClass}, FALSE)

CommandOutputHandlers == handler({"list_project_commands", "read_command_output"}, nothing, FALSE)

SessionHandlers == handler({"browser_list_sessions", "browser_new_tab"}, nothing, FALSE)

\* handleBrowserTabAction: what moves a tab about asks nobody; what looks into
\* it asks for control.
TabHandlers ==
  handler({"browser_close_tab", "browser_switch_tab", "browser_back", "browser_forward",
           "browser_reload", "browser_stop"}, nothing, FALSE)
  \union handler({"browser_screenshot", "browser_get_console", "browser_get_network_summary"},
                 nothing, TRUE)

PageHandlers ==
  handler({"browser_open_url"}, {"browser.web.navigate"}, TRUE)
  \union handler({"browser_read_page", "browser_find_text"}, {"browser.web.read"}, TRUE)

InputHandlers ==
  handler({"browser_click", "browser_type", "browser_fill", "browser_select",
           "browser_press_key", "browser_scroll"}, {"browser.web.interact"}, TRUE)

ProfileHandlers ==
  handler({"browser_list_profiles", "browser_create_session", "browser_use_session"},
          nothing, FALSE)

WaitHandler == handler({"browser_wait_for"}, {"browser.web.interact"}, TRUE)

WindowHandlers ==
  handler({"is_browser_open", "get_browser_status", "browser_open", "browser_close"},
          nothing, FALSE)

ElementHandlers ==
  handler({"browser_hover", "browser_double_click", "browser_focus", "browser_clear",
           "browser_scroll_into_view", "browser_drag", "browser_checkbox"},
          {"browser.web.interact"}, TRUE)

UploadHandler == handler({"browser_upload_file"}, {"browser.web.upload"}, TRUE)

MediaHandlers ==
  handler({"browser_get_media", "browser_control_media"}, {"browser.web.media_control"}, TRUE)

DialogHandler == handler({"browser_handle_dialog"}, {"browser.web.interact"}, TRUE)

ProcessHandlers ==
  handler({"start_project_process", "list_project_processes", "read_project_process_output",
           "stop_project_process"}, nothing, FALSE)

\* git.read is not in the registry.
GitHandlers ==
  handler({"git_status", "git_branch_info"}, {"git.read"}, FALSE)
  \union handler({"git_diff"}, {"git.diff"}, FALSE)
  \union handler({"git_log"}, {"git.log"}, FALSE)
  \union handler({"git_show"}, {"git.show"}, FALSE)
  \union handler({"git_stage"}, {"git.stage"}, FALSE)
  \union handler({"git_unstage"}, {"git.unstage"}, FALSE)
  \union handler({"git_commit"}, {"git.commit"}, FALSE)

\* executeProjectTool: the handler each tool is dispatched to.
Handlers == ReadHandlers \union SearchHandlers \union RunCommandHandler
            \union CommandOutputHandlers \union SessionHandlers \union TabHandlers
            \union PageHandlers \union InputHandlers \union ProfileHandlers
            \union WaitHandler \union WindowHandlers \union ElementHandlers
            \union UploadHandler \union MediaHandlers \union DialogHandler
            \union ProcessHandlers \union GitHandlers

handlerOf(tool) == CHOOSE h \in Handlers : h.tool = tool

=============================================================================
